---- MODULE Spec2Model ----
(***************************************************************************)
(* Model of the acquisition-and-aggregation pipeline of run_search.py:     *)
(* the conference paper collector (query_dblp, fetch_all_conference_papers)*)
(* the author classifier (get_dblp_author_profile,                         *)
(* get_dblp_publication_count, get_latest_affiliation, process_all_authors)*)
(* and the aggregator and reporter (build_professor_paper_count_dict,      *)
(* generate_professor_paper_count_csv), over the file-per-key JSON cache.  *)
(* Beside it: the same classifier run by two processes on one store, the   *)
(* pipeline of new_search.py, build_professor_paper_dict and               *)
(* is_professor_on_google of search.py, and remove_empty_rows of           *)
(* remove_empty.py, each with a specification of its own.                  *)
(*                                                                         *)
(* Python strings that the code slices, splits, strips or concatenates are *)
(* sequences of one-character strings; None is the empty tuple and a       *)
(* present value x is the one-element tuple <<x>>.                         *)
(***************************************************************************)
EXTENDS Integers, Sequences, FiniteSets, TLC

VARIABLES
    run,                    \* number of the current pipeline run (main is run once per process start)
    pc,                     \* position of main / of the loop it is in
    confFile,               \* cache/conferences/{venue}{year}.json, per grid cell: None or <<list>>
    authorFile,             \* cache/authors/{key}.json, per normalized name: None or <<dict>>
    allPapersFile,          \* cache/all_papers.json
    countsFile,             \* professor_paper_counts.json
    csvFile,                \* professor_paper_counts.csv: None or <<rows>> (header row left out)
    idx,                    \* position of fetch_all_conference_papers in the grid
    retries,                \* depth of the 429 recursion of the request in progress
    all_papers,             \* local all_papers of fetch_all_conference_papers / papers of main
    todo,                   \* authors process_all_authors has still to iterate over
    cur,                    \* author of the iteration in progress: None or <<name>>
    author_cache,           \* local author_cache of process_all_authors (line 173)
    profile_url,            \* local profile_url of process_all_authors
    pub_count,              \* local pub_count of process_all_authors
    professor_paper_count_dict, \* local of main: sequence of [key, counts]
    lastReq,                \* request issued by the last step: None or <<[kind, key]>>
    lastStatus,             \* HTTP status received by the last step: None or <<status>>
    lastSleep,              \* sleep performed by the last step: None or the <<low, high>> of random.uniform
    lastRet,                \* value returned by query_dblp in the last step: None or <<[is_sleep, papers]>>
    lastBody,               \* body of the response received by the last step, None if there is none
    writeFailed,            \* has a save_cache (or the csv write) of the last step raised
    fetchedNow,             \* requests answered in this run, the 429 answers to searches left out
    affFetches,             \* affiliation requests issued in the author iteration in progress
    collectNet,             \* has the collector issued a request in this run
    cachedAtStart,          \* was every grid cell cached non-empty when this run started
    prevPapers,             \* papers returned by the collector in the previous run
    noMatchNow,             \* authors whose author search succeeded without a match in this run
    noMatchPrev,            \* the same, of the previous run
    procs,                  \* per process of a shared store: position and locals of its classifier
    finalizedKeys,          \* keys under which some process has saved a finalized record
    professor_dict,         \* new_search.py, local of main: sequence of [key, list of pairs]
    professorPapersFile,    \* professor_papers.json
    search,                 \* search.py, build_professor_paper_dict: its argument, position and locals
    google,                 \* search.py, is_professor_on_google: its argument, locals and result
    csvFiles,               \* remove_empty.py: the text of each CSV file, None when there is no file
    csvCalls                \* remove_empty.py: per call of remove_empty_rows, its arguments and what it printed

vars == <<run, pc, confFile, authorFile, allPapersFile, countsFile, csvFile, idx, retries,
          all_papers, todo, cur, author_cache, profile_url, pub_count,
          professor_paper_count_dict,
          lastReq, lastStatus, lastSleep, lastRet, lastBody, writeFailed, fetchedNow,
          affFetches, collectNet, cachedAtStart, prevPapers, noMatchNow, noMatchPrev,
          procs, finalizedKeys, professor_dict, professorPapersFile, search, google,
          csvFiles, csvCalls>>

\* the state of main of run_search.py
PipelineVars ==
    <<run, pc, confFile, authorFile, allPapersFile, countsFile, csvFile, idx, retries,
      all_papers, todo, cur, author_cache, profile_url, pub_count,
      professor_paper_count_dict,
      lastReq, lastStatus, lastSleep, lastRet, lastBody, writeFailed, fetchedNow,
      affFetches, collectNet, cachedAtStart, prevPapers, noMatchNow, noMatchPrev>>

\* the state of the classifiers of two processes on one store
TwoProcessVars == <<procs, finalizedKeys>>

\* the report of new_search.py
NewSearchVars == <<professor_dict, professorPapersFile>>

\* the aggregation of search.py
SearchVars == <<search>>

\* the web-search classifier of search.py
GoogleVars == <<google>>

\* the files and the calls of remove_empty.py
RowsVars == <<csvFiles, csvCalls>>

\* the state that main of run_search.py does not touch
Aside == <<TwoProcessVars, NewSearchVars, SearchVars, GoogleVars, RowsVars>>

---------------------------------------------------------------------------
(* Bounds of the model *)

MaxRuns == 2        \* pipeline runs against the same cache
MaxRetry == 1       \* consecutive 429 responses to one request
MaxPapers == 3      \* papers of a list the aggregator is started on
NumYears == 2       \* years of the grid, from FirstYear on
MaxGoogleRetries == 2   \* largest max_retries is_professor_on_google is called with
MaxText == 4        \* characters of the CSV file remove_empty_rows is started on

---------------------------------------------------------------------------
(* Python values *)

None == <<>>
Some(x) == <<x>>
EmptyDict == <<>>

Digits == <<"0", "1", "2", "3", "4", "5", "6", "7", "8", "9">>

\* str(n) for an int n >= 0
RECURSIVE Str(_)
Str(n) == IF n < 10 THEN <<Digits[n + 1]>>
          ELSE Str(n \div 10) \o <<Digits[(n % 10) + 1]>>

\* s[:-k]
DropLast(s, k) == IF Len(s) <= k THEN <<>> ELSE SubSeq(s, 1, Len(s) - k)

\* s[-k:]
TakeLast(s, k) == IF Len(s) <= k THEN s ELSE SubSeq(s, Len(s) - k + 1, Len(s))

\* position of the first occurrence of character c in s, 0 if there is none
RECURSIVE FindFrom(_, _, _)
FindFrom(s, c, i) == IF i > Len(s) THEN 0
                     ELSE IF s[i] = c THEN i
                     ELSE FindFrom(s, c, i + 1)

\* s.split(c): all the fields
RECURSIVE Split(_, _)
Split(s, c) ==
    LET i == FindFrom(s, c, 1) IN
    IF i = 0 THEN <<s>>
    ELSE <<SubSeq(s, 1, i - 1)>> \o Split(SubSeq(s, i + 1, Len(s)), c)

\* s.split(c, 1): at most two fields
SplitFirst(s, c) ==
    LET i == FindFrom(s, c, 1) IN
    IF i = 0 THEN <<s>>
    ELSE <<SubSeq(s, 1, i - 1), SubSeq(s, i + 1, Len(s))>>

RECURSIVE LStrip(_)
LStrip(s) == IF s # <<>> /\ Head(s) = " " THEN LStrip(Tail(s)) ELSE s

RECURSIVE RStrip(_)
RStrip(s) == IF s # <<>> /\ s[Len(s)] = " " THEN RStrip(SubSeq(s, 1, Len(s) - 1)) ELSE s

\* s.strip()
Strip(s) == RStrip(LStrip(s))

\* s.replace(' ', '_')
Replace(s) == [i \in 1..Len(s) |-> IF s[i] = " " THEN "_" ELSE s[i]]

\* sep.join(parts)
RECURSIVE Join(_, _)
Join(parts, sep) == IF parts = <<>> THEN <<>>
                    ELSE IF Len(parts) = 1 THEN parts[1]
                    ELSE parts[1] \o sep \o Join(Tail(parts), sep)

\* dict.update: the fields of new are added to old or overwrite them
Update(old, new) ==
    [f \in (DOMAIN old) \cup (DOMAIN new) |-> IF f \in DOMAIN new THEN new[f] ELSE old[f]]

\* load_cache: the content of the file, {} when there is no file
load_cache(file) == IF file = None THEN EmptyDict ELSE file[1]

---------------------------------------------------------------------------
(* The grid, and the data the remote source may return *)

FirstYear == 2020

DAC == <<"D", "A", "C">>
NeurIPS == <<"N", "e", "u", "r", "I", "P", "S">>

\* venues of the grid (fetch_all_conference_papers iterates a prefix of the code's list)
venues == <<DAC>>
years == [i \in 1..NumYears |-> FirstYear + i - 1]

\* the grid in iteration order: for venue in venues: for year in years
Grid == [i \in 1..(Len(venues) * Len(years)) |->
            [venue |-> venues[((i - 1) \div Len(years)) + 1],
             year |-> years[((i - 1) % Len(years)) + 1]]]

Cells == {Grid[i] : i \in 1..Len(Grid)}

\* f"{venue}{year}"
ConferenceId(venue, year) == venue \o Str(year)

ASmith == <<"A", ".", " ", "S", "m", "i", "t", "h">>
JaneDoe == <<"J", "a", "n", "e", " ", "D", "o", "e">>

\* <info> elements of a search result: has_title says whether a <title> element is there
R1 == [has_title |-> TRUE, title |-> "T1", authors |-> <<ASmith>>]
R2 == [has_title |-> TRUE, title |-> "T2", authors |-> <<ASmith, JaneDoe>>]
RBad == [has_title |-> FALSE, title |-> "", authors |-> <<JaneDoe>>]

\* response bodies of the publication search: None is a body that is not XML
ConfBodies == {None, Some(<<>>), Some(<<R1, R2>>), Some(<<R2, RBad>>)}

\* outcomes of requests.get for the publication search: None is an exception of the transport
ConfOutcomes ==
    {None}
    \cup {Some([status |-> 200, body |-> b]) : b \in ConfBodies}
    \cup {Some([status |-> s, body |-> None]) : s \in {429, 500}}

Truthy(v) == v # <<>>

\* time.sleep(random.uniform(60, 120)), lines 54 and 121
Backoff == <<60, 120>>

\* time.sleep(random.uniform(2, 5)), lines 96 and 198
Politeness == <<2, 5>>

\* every status other than 200 taken for a rate limit
RateLimitedOnAnyError(outcome) == outcome # None /\ outcome[1].status # 200

\* response.status_code == 429, lines 52 and 119
RateLimited(outcome) == outcome # None /\ outcome[1].status = 429

\* sys.getrecursionlimit() of the interpreter, which the code never sets: the number of
\* nested calls after which a call raises RecursionError
RECURSION_LIMIT == 1000

\* the recursive calls of lines 55 and 122 at depth `depth` of the recursion: the chain of
\* retries alone fills the stack (the frames of the callers and of requests make the error
\* come some calls earlier); RecursionError is an Exception, raised inside the try
RecursionError(depth) == depth + 1 >= RECURSION_LIMIT

\* the body of a response, None when there is no response
BodyOf(outcome) == IF outcome = None THEN None ELSE outcome[1].body

\* the part of a profile document that its reader looks at (field is "rcount" for
\* get_dblp_publication_count, "note" for get_latest_affiliation), None when there is no
\* response or the body is not a document
DocumentOf(outcome, field) ==
    IF BodyOf(outcome) = None THEN None ELSE Some(BodyOf(outcome)[1][field])

---------------------------------------------------------------------------
(* Stage 1: query_dblp and fetch_all_conference_papers *)

\* lines 59-61: None when ET.fromstring or info.find("title").text raises
ParsePapers(body) ==
    IF body = None THEN None
    ELSE IF \E i \in 1..Len(body[1]) : ~body[1][i].has_title THEN None
    ELSE Some([i \in 1..Len(body[1]) |->
                  [title |-> body[1][i].title, authors |-> body[1][i].authors]])

\* the empty list saved on the failure path as well
QueryResultSavesFailure(outcome) ==
    IF outcome # None /\ outcome[1].status = 200 /\ ParsePapers(outcome[1].body) # None
    THEN [is_sleep |-> TRUE, papers |-> ParsePapers(outcome[1].body)[1], save |-> TRUE]
    ELSE [is_sleep |-> FALSE, papers |-> <<>>, save |-> TRUE]

\* the empty result of a search left unsaved
QueryResultSkipsEmpty(outcome) ==
    LET failed == [is_sleep |-> FALSE, papers |-> <<>>, save |-> FALSE] IN
    IF outcome = None THEN failed
    ELSE IF outcome[1].status # 200 THEN failed
    ELSE LET parsed == ParsePapers(outcome[1].body) IN
         IF parsed = None THEN failed
         ELSE [is_sleep |-> TRUE, papers |-> parsed[1], save |-> parsed[1] # <<>>]

\* the sleep flag set on the failure path as well
QueryResultSleepsOnFailure(outcome) ==
    LET failed == [is_sleep |-> TRUE, papers |-> <<>>, save |-> FALSE] IN
    IF outcome = None THEN failed
    ELSE IF outcome[1].status # 200 THEN failed
    ELSE LET parsed == ParsePapers(outcome[1].body) IN
         IF parsed = None THEN failed
         ELSE [is_sleep |-> TRUE, papers |-> parsed[1], save |-> TRUE]

\* lines 50-67 for an outcome other than 429: [is_sleep, papers, save]
QueryResult(outcome) ==
    LET failed == [is_sleep |-> FALSE, papers |-> <<>>, save |-> FALSE] IN
    IF outcome = None THEN failed
    ELSE IF outcome[1].status # 200 THEN failed
    ELSE LET parsed == ParsePapers(outcome[1].body) IN
         IF parsed = None THEN failed
         ELSE [is_sleep |-> TRUE, papers |-> parsed[1], save |-> TRUE]

\* lines 63-67: save_cache is called inside the try, so that an exception it raises
\* (ok is FALSE) is caught at line 65 and (False, []) is returned
AfterSave(r, ok) ==
    IF r.save /\ ~ok THEN [is_sleep |-> FALSE, papers |-> <<>>, save |-> FALSE] ELSE r

\* lines 88-91
Annotate(papers, cell) ==
    [i \in 1..Len(papers) |->
        [title |-> papers[i].title, authors |-> papers[i].authors,
         venue |-> cell.venue, year |-> cell.year,
         conference |-> ConferenceId(cell.venue, cell.year)]]

ClassifierLocals == <<todo, cur, author_cache, profile_url, pub_count, affFetches, noMatchNow>>
ReportLocals == <<professor_paper_count_dict, countsFile, csvFile>>
RunGhosts == <<cachedAtStart, prevPapers, noMatchPrev>>

\* the cache consulted only after the request has been sent
QueryCachedAfterRequest ==
    /\ pc = "collect"
    /\ idx <= Len(Grid)
    /\ LET cell == Grid[idx]
           conference_cache == load_cache(confFile[cell]) IN
       /\ Truthy(conference_cache)
       /\ lastRet' = Some([is_sleep |-> FALSE, papers |-> conference_cache])
       /\ all_papers' = all_papers \o Annotate(conference_cache, cell)
       /\ lastReq' = Some([kind |-> "conference", key |-> cell])
    /\ idx' = idx + 1
    /\ collectNet' = TRUE
    /\ lastStatus' = Some(200)
    /\ lastSleep' = None
    /\ lastBody' = None
    /\ writeFailed' = FALSE
    /\ UNCHANGED <<run, pc, confFile, authorFile, allPapersFile, retries, fetchedNow>>
    /\ UNCHANGED <<ClassifierLocals, ReportLocals, RunGhosts>>
    /\ UNCHANGED Aside

\* query_dblp, lines 40-45, and the loop body of fetch_all_conference_papers around it:
\* the cell is cached and non-empty
QueryCached ==
    /\ pc = "collect"
    /\ idx <= Len(Grid)
    /\ LET cell == Grid[idx]
           conference_cache == load_cache(confFile[cell]) IN
       /\ Truthy(conference_cache)
       /\ lastRet' = Some([is_sleep |-> FALSE, papers |-> conference_cache])
       /\ all_papers' = all_papers \o Annotate(conference_cache, cell)
    /\ idx' = idx + 1
    /\ lastReq' = None
    /\ lastStatus' = None
    /\ lastSleep' = None
    /\ lastBody' = None
    /\ writeFailed' = FALSE
    /\ UNCHANGED <<run, pc, confFile, authorFile, allPapersFile, retries, collectNet>>
    /\ UNCHANGED <<fetchedNow, ClassifierLocals, ReportLocals, RunGhosts>>
    /\ UNCHANGED Aside

\* query_dblp, lines 47-67, and the loop body of fetch_all_conference_papers around it:
\* one requests.get and what follows it up to the next request.  ok says whether the
\* save_cache of line 63 succeeds, cap bounds the consecutive 429 answers.
QueryRequestUpTo(outcome, ok, cap) ==
    /\ pc = "collect"
    /\ idx <= Len(Grid)
    /\ LET cell == Grid[idx]
           conference_cache == load_cache(confFile[cell])
           request == [kind |-> "conference", key |-> cell] IN
       /\ ~Truthy(conference_cache)
       /\ lastReq' = Some(request)
       /\ lastStatus' = IF outcome = None THEN None ELSE Some(outcome[1].status)
       /\ lastBody' = BodyOf(outcome)
       /\ collectNet' = TRUE
       /\ fetchedNow' = IF outcome # None /\ outcome[1].status = 429 THEN fetchedNow
                        ELSE fetchedNow \cup {request}
       /\ IF RateLimited(outcome) /\ ~RecursionError(retries)
          THEN \* time.sleep(random.uniform(60, 120)); return query_dblp(...)
               /\ retries < cap
               /\ retries' = retries + 1
               /\ lastSleep' = Backoff
               /\ lastRet' = None
               /\ writeFailed' = FALSE
               /\ UNCHANGED <<confFile, all_papers, idx>>
          ELSE IF RateLimited(outcome)
          THEN \* the call of line 55 raises RecursionError, every frame of the chain
               \* catches it at line 65 and returns (False, [])
               /\ lastSleep' = Backoff
               /\ lastRet' = Some([is_sleep |-> FALSE, papers |-> <<>>])
               /\ idx' = idx + 1
               /\ retries' = 0
               /\ writeFailed' = FALSE
               /\ UNCHANGED <<confFile, all_papers>>
          ELSE LET r == AfterSave(QueryResult(outcome), ok) IN
               /\ confFile' = IF r.save THEN [confFile EXCEPT ![cell] = Some(r.papers)]
                              ELSE confFile
               /\ writeFailed' = (QueryResult(outcome).save /\ ~ok)
               /\ lastRet' = Some([is_sleep |-> r.is_sleep, papers |-> r.papers])
               /\ all_papers' = all_papers \o Annotate(r.papers, cell)
               /\ lastSleep' = IF r.is_sleep THEN Politeness ELSE None
               /\ idx' = idx + 1
               /\ retries' = 0
    /\ UNCHANGED <<run, pc, authorFile, allPapersFile>>
    /\ UNCHANGED <<ClassifierLocals, ReportLocals, RunGhosts>>
    /\ UNCHANGED Aside

QueryRequest(outcome, ok) == QueryRequestUpTo(outcome, ok, MaxRetry)

\* set(author for paper in papers for author in paper['authors'])
AuthorsOf(papers) ==
    UNION {{papers[i].authors[j] : j \in 1..Len(papers[i].authors)} : i \in 1..Len(papers)}

\* an exception that nothing catches ends the process: its locals are gone
Abort ==
    /\ pc' = "aborted"
    /\ todo' = {}
    /\ cur' = None
    /\ author_cache' = EmptyDict
    /\ profile_url' = None
    /\ pub_count' = 0
    /\ retries' = 0
    /\ writeFailed' = TRUE

\* lines 98-99 of fetch_all_conference_papers, line 311 of main, lines 167-168 of
\* process_all_authors: the grid is done.  The save_cache of line 98 is outside every try.
CollectDone(ok) ==
    /\ pc = "collect"
    /\ idx > Len(Grid)
    /\ IF ok
       THEN /\ allPapersFile' = Some(all_papers)
            /\ todo' = AuthorsOf(all_papers)
            /\ pc' = "classify"
            /\ writeFailed' = FALSE
            /\ UNCHANGED <<cur, author_cache, profile_url, pub_count, retries>>
       ELSE /\ Abort
            /\ UNCHANGED allPapersFile
    /\ lastReq' = None
    /\ lastStatus' = None
    /\ lastSleep' = None
    /\ lastRet' = None
    /\ lastBody' = None
    /\ UNCHANGED <<run, confFile, authorFile, idx, all_papers, collectNet, fetchedNow>>
    /\ UNCHANGED <<affFetches, noMatchNow>>
    /\ UNCHANGED <<ReportLocals, RunGhosts>>
    /\ UNCHANGED Aside

---------------------------------------------------------------------------
(* Stage 2: the author classifier *)

PROFESSOR_THRESHOLD == 20

Unknown == <<"U", "n", "k", "n", "o", "w", "n">>
UnknownAffiliation == Unknown \o <<" ", "A", "f", "f", "i", "l", "i", "a", "t", "i", "o", "n">>
UnknownURL == Unknown \o <<" ", "U", "R", "L">>
XUniversity == <<"X", " ", "U", "n", "i", "v", "e", "r", "s", "i", "t", "y">>
MITCSAIL == <<"M", "I", "T", ",", " ", "C", "S", "A", "I", "L">>

Names == {ASmith, JaneDoe}

\* author.replace(' ', '_'): the name of the author's cache file
AuthorKey(author) == Replace(author)

AuthorKeys == {AuthorKey(n) : n \in Names}

\* the file of a key, None when there is no such file
AuthorFileOf(key) == IF key \in DOMAIN authorFile THEN authorFile[key] ELSE None

\* the text of hits/hit/info/url that the author search returns for a name
UrlOf(author) == <<"p", "i", "d", "/">> \o AuthorKey(author)

\* outcomes of requests.get for the author search: None is an exception of the transport,
\* a body None is not XML, a body <<None>> has no hit, a body <<<<url>>>> has one
AuthorOutcomes(author) ==
    {None}
    \cup {Some([status |-> 200, body |-> b]) : b \in {None, Some(None), Some(Some(UrlOf(author)))}}
    \cup {Some([status |-> s, body |-> None]) : s \in {429, 500}}

\* <r> counts of the profile documents the model lets the source return
PubCounts == {19, 20}

\* text of the affiliation note of a profile document, None when there is no note
Notes == {None, Some(<<" ">> \o XUniversity)}

\* outcomes of requests.get for a profile document: None is an exception of the transport,
\* a body None is not XML
ProfileOutcomes ==
    {None}
    \cup {Some([status |-> s, body |-> None]) : s \in {200, 429, 500}}
    \cup {Some([status |-> s, body |-> Some([rcount |-> n, note |-> t])]) :
             s \in {200, 429, 500}, n \in PubCounts, t \in Notes}

\* the cache of the profile reference never consulted
HasProfileUrlNever(cache) == FALSE

\* 'profile_url' in author_cache, line 111
HasProfileUrl(cache) == "profile_url" \in DOMAIN cache

\* the completion marker read by its value instead of its presence
FinalizedByValue(cache) == "is_professor" \in DOMAIN cache /\ cache.is_professor

\* 'is_professor' in author_cache, line 175
Finalized(cache) == "is_professor" \in DOMAIN cache

\* the threshold compared strictly
IsProfessorStrict(count) == count > PROFESSOR_THRESHOLD

\* pub_count >= 20, lines 188 and 195
IsProfessor(count) == count >= PROFESSOR_THRESHOLD

\* get_dblp_publication_count, lines 144-150: None on an exception, the status is not read
get_dblp_publication_count(outcome) ==
    IF outcome = None THEN None
    ELSE IF outcome[1].body = None THEN None
    ELSE Some(outcome[1].body[1].rcount)

\* the sentinel of process_all_authors returned when the fetch fails
get_latest_affiliationOrUnknown(outcome) ==
    IF outcome = None THEN Unknown
    ELSE IF outcome[1].body = None THEN Unknown
    ELSE IF outcome[1].body[1].note = None THEN UnknownAffiliation
    ELSE Strip(outcome[1].body[1].note[1])

\* get_latest_affiliation, lines 155-162: the status is not read
get_latest_affiliation(outcome) ==
    IF outcome = None THEN UnknownAffiliation
    ELSE IF outcome[1].body = None THEN UnknownAffiliation
    ELSE IF outcome[1].body[1].note = None THEN UnknownAffiliation
    ELSE Strip(outcome[1].body[1].note[1])

\* the record saved at line 197 without the completion marker
FinalRecordWithoutMarker(cache, url, count, affiliation) ==
    Update(cache, [profile_url |-> url, pub_count |-> count, affiliation |-> affiliation])

\* the record written from the computed fields alone
FinalRecordNotMerged(cache, url, count, affiliation) ==
    [pub_count |-> count, affiliation |-> affiliation, is_professor |-> IsProfessor(count)]

\* lines 191-197: the record process_all_authors saves
FinalRecord(cache, url, count, affiliation) ==
    Update(cache, [profile_url |-> url, pub_count |-> count, affiliation |-> affiliation,
                   is_professor |-> IsProfessor(count)])

NoObservation ==
    /\ lastReq' = None
    /\ lastStatus' = None
    /\ lastSleep' = None
    /\ lastRet' = None
    /\ lastBody' = None

CollectorState == <<confFile, allPapersFile, idx, all_papers, collectNet>>

\* `continue` in process_all_authors, and the end of an iteration
NextAuthor ==
    /\ pc' = "classify"
    /\ cur' = None
    /\ author_cache' = EmptyDict
    /\ profile_url' = None
    /\ pub_count' = 0
    /\ retries' = 0

\* process_all_authors, lines 170-179: the head of one iteration of the loop
ProcessAuthorBegin(author) ==
    /\ pc = "classify"
    /\ author \in todo
    /\ todo' = todo \ {author}
    /\ LET loaded == load_cache(AuthorFileOf(AuthorKey(author))) IN
       IF Finalized(loaded)
       THEN /\ NextAuthor
            /\ UNCHANGED affFetches
       ELSE /\ pc' = "profile"
            /\ cur' = Some(author)
            /\ author_cache' = loaded
            /\ affFetches' = 0
            /\ UNCHANGED <<profile_url, pub_count, retries>>
    /\ NoObservation
    /\ writeFailed' = FALSE
    /\ UNCHANGED <<run, authorFile, noMatchNow, fetchedNow, CollectorState, ReportLocals, RunGhosts>>
    /\ UNCHANGED Aside

\* lines 180-181 after get_dblp_author_profile has returned url
AfterProfile(url) ==
    IF ~Truthy(url)
    THEN NextAuthor
    ELSE /\ pc' = "pubcount"
         /\ profile_url' = url
         /\ retries' = 0
         /\ UNCHANGED <<cur, author_cache, pub_count>>

\* get_dblp_author_profile, lines 107-112: the cached profile_url is returned
GetProfileCached ==
    /\ pc = "profile"
    /\ LET cache == load_cache(AuthorFileOf(AuthorKey(cur[1]))) IN
       /\ HasProfileUrl(cache)
       /\ AfterProfile(cache.profile_url)
    /\ NoObservation
    /\ writeFailed' = FALSE
    /\ UNCHANGED <<run, authorFile, todo, affFetches, noMatchNow, fetchedNow>>
    /\ UNCHANGED <<CollectorState, ReportLocals, RunGhosts>>
    /\ UNCHANGED Aside

\* get_dblp_author_profile, lines 114-138: one requests.get and what follows it.  ok says
\* whether the save_cache of line 133 succeeds, cap bounds the consecutive 429 answers.
GetProfileRequestUpTo(outcome, ok, cap) ==
    /\ pc = "profile"
    /\ LET author == cur[1]
           key == AuthorKey(author)
           cache == load_cache(AuthorFileOf(key))
           request == [kind |-> "author", key |-> author] IN
       /\ ~HasProfileUrl(cache)
       /\ lastReq' = Some(request)
       /\ lastStatus' = IF outcome = None THEN None ELSE Some(outcome[1].status)
       /\ lastBody' = BodyOf(outcome)
       /\ lastRet' = None
       /\ fetchedNow' = IF outcome # None /\ outcome[1].status = 429 THEN fetchedNow
                        ELSE fetchedNow \cup {request}
       /\ IF RateLimited(outcome) /\ ~RecursionError(retries)
          THEN \* time.sleep(random.uniform(60, 120)); return get_dblp_author_profile(author_name)
               /\ retries < cap
               /\ retries' = retries + 1
               /\ lastSleep' = Backoff
               /\ writeFailed' = FALSE
               /\ UNCHANGED <<pc, cur, author_cache, profile_url, pub_count, authorFile,
                              noMatchNow>>
          ELSE IF RateLimited(outcome)
          THEN \* the call of line 122 raises RecursionError, every frame of the chain
               \* catches it at line 136 and returns None
               /\ lastSleep' = Backoff
               /\ writeFailed' = FALSE
               /\ AfterProfile(None)
               /\ UNCHANGED <<authorFile, noMatchNow>>
          ELSE /\ lastSleep' = None
               /\ IF outcome = None \/ outcome[1].status # 200 \/ outcome[1].body = None
                  THEN \* an exception: None is returned, nothing is saved
                       /\ AfterProfile(None)
                       /\ writeFailed' = FALSE
                       /\ UNCHANGED <<authorFile, noMatchNow>>
                  ELSE IF ~ok
                  THEN \* save_cache raises inside the try: caught at line 136, None is returned
                       /\ AfterProfile(None)
                       /\ writeFailed' = TRUE
                       /\ UNCHANGED <<authorFile, noMatchNow>>
                  ELSE LET url == outcome[1].body[1] IN
                       /\ authorFile' = [authorFile EXCEPT
                              ![key] = Some(Update(cache, [profile_url |-> url]))]
                       /\ AfterProfile(url)
                       /\ writeFailed' = FALSE
                       /\ noMatchNow' = IF url = None THEN noMatchNow \cup {author}
                                        ELSE noMatchNow
    /\ UNCHANGED <<run, todo, affFetches, CollectorState, ReportLocals, RunGhosts>>
    /\ UNCHANGED Aside

GetProfileRequest(outcome, ok) == GetProfileRequestUpTo(outcome, ok, MaxRetry)

\* lines 191-198: the record is saved and the iteration ends with the politeness delay.
\* The save_cache of line 197 is outside every try.
SaveAuthor(count, affiliation, ok) ==
    IF ok
    THEN /\ authorFile' = [authorFile EXCEPT ![AuthorKey(cur[1])] =
                              Some(FinalRecord(author_cache, profile_url, count, affiliation))]
         /\ lastSleep' = Politeness
         /\ writeFailed' = FALSE
         /\ NextAuthor
         /\ UNCHANGED todo
    ELSE /\ Abort
         /\ lastSleep' = None
         /\ UNCHANGED authorFile

\* lines 183-187 with get_dblp_publication_count: one requests.get and what follows it
GetPublicationCount(outcome, ok) ==
    /\ pc = "pubcount"
    /\ lastReq' = Some([kind |-> "pubcount", key |-> cur[1]])
    /\ lastStatus' = IF outcome = None THEN None ELSE Some(outcome[1].status)
    /\ lastBody' = DocumentOf(outcome, "rcount")
    /\ lastRet' = None
    /\ fetchedNow' = fetchedNow \cup {[kind |-> "pubcount", key |-> cur[1]]}
    /\ LET count == get_dblp_publication_count(outcome) IN
       IF count = None
       THEN /\ NextAuthor
            /\ lastSleep' = None
            /\ writeFailed' = FALSE
            /\ UNCHANGED <<authorFile, todo>>
       ELSE IF IsProfessor(count[1])
       THEN /\ pc' = "affil"
            /\ pub_count' = count[1]
            /\ lastSleep' = None
            /\ writeFailed' = FALSE
            /\ UNCHANGED <<cur, author_cache, profile_url, retries, authorFile, todo>>
       ELSE SaveAuthor(count[1], Unknown, ok)
    /\ UNCHANGED <<run, affFetches, noMatchNow, CollectorState, ReportLocals, RunGhosts>>
    /\ UNCHANGED Aside

\* lines 188-198 with get_latest_affiliation: one requests.get and what follows it
GetLatestAffiliation(outcome, ok) ==
    /\ pc = "affil"
    /\ lastReq' = Some([kind |-> "affiliation", key |-> cur[1]])
    /\ lastStatus' = IF outcome = None THEN None ELSE Some(outcome[1].status)
    /\ lastBody' = DocumentOf(outcome, "note")
    /\ lastRet' = None
    /\ fetchedNow' = fetchedNow \cup {[kind |-> "affiliation", key |-> cur[1]]}
    /\ affFetches' = affFetches + 1
    /\ SaveAuthor(pub_count, get_latest_affiliation(outcome), ok)
    /\ UNCHANGED <<run, noMatchNow, CollectorState, ReportLocals, RunGhosts>>
    /\ UNCHANGED Aside

\* process_all_authors returns, line 312 of main
ClassifyDone ==
    /\ pc = "classify"
    /\ todo = {}
    /\ pc' = "aggregate"
    /\ NoObservation
    /\ writeFailed' = FALSE
    /\ UNCHANGED <<run, authorFile, retries, fetchedNow, ClassifierLocals, CollectorState>>
    /\ UNCHANGED <<ReportLocals, RunGhosts>>
    /\ UNCHANGED Aside

---------------------------------------------------------------------------
(* Stage 3: the aggregator and the reporter.  A Python dict, which keeps   *)
(* the order of insertion, is a sequence of [key, value] entries.          *)

\* position of key k in the dict d, 0 when it is not a key
RECURSIVE IndexFrom(_, _, _)
IndexFrom(d, k, i) == IF i > Len(d) THEN 0
                      ELSE IF d[i].key = k THEN i
                      ELSE IndexFrom(d, k, i + 1)

IndexOf(d, k) == IndexFrom(d, k, 1)

\* the count set to 0 before every increment
IncrementFromZero(counts, conference) ==
    LET i == IndexOf(counts, conference) IN
    IF i = 0 THEN Append(counts, [key |-> conference, value |-> 1])
    ELSE [counts EXCEPT ![i].value = 1]

\* lines 250-252: the count of conference in the inner dict is set to 0 if absent, then incremented
Increment(counts, conference) ==
    LET i == IndexOf(counts, conference) IN
    IF i = 0 THEN Append(counts, [key |-> conference, value |-> 1])
    ELSE [counts EXCEPT ![i].value = @ + 1]

\* lines 237-252: one author of one paper
CountAuthor(d, conference, author) ==
    LET author_data == load_cache(AuthorFileOf(AuthorKey(author))) IN
    IF "is_professor" \in DOMAIN author_data /\ author_data.is_professor
    THEN LET affiliation == IF "affiliation" \in DOMAIN author_data
                            THEN author_data.affiliation ELSE UnknownAffiliation
             key == author \o <<",", " ">> \o affiliation
             i == IndexOf(d, key) IN
         IF i = 0 THEN Append(d, [key |-> key, value |-> Increment(<<>>, conference)])
         ELSE [d EXCEPT ![i].value = Increment(@, conference)]
    ELSE d

\* lines 236-252: the authors of one paper, from the j-th on
RECURSIVE CountAuthors(_, _, _, _)
CountAuthors(d, conference, authors, j) ==
    IF j > Len(authors) THEN d
    ELSE CountAuthors(CountAuthor(d, conference, authors[j]), conference, authors, j + 1)

\* lines 232-252: the papers from the i-th on
RECURSIVE CountPapers(_, _, _)
CountPapers(d, papers, i) ==
    IF i > Len(papers) THEN d
    ELSE CountPapers(CountAuthors(d, papers[i].conference, papers[i].authors, 1), papers, i + 1)

\* line 257: f"{conf}, {count}"
FormatEntry(conf, count) == conf \o <<",", " ">> \o Str(count)

\* lines 228-258 of build_professor_paper_count_dict
ProfessorCountDict(papers) ==
    LET conference_author_paper_count == CountPapers(<<>>, papers, 1) IN
    [i \in 1..Len(conference_author_paper_count) |->
        [key |-> conference_author_paper_count[i].key,
         value |-> [j \in 1..Len(conference_author_paper_count[i].value) |->
                       FormatEntry(conference_author_paper_count[i].value[j].key,
                                   conference_author_paper_count[i].value[j].value)]]]

\* line 291: f"{entry.split(',')[0][:-4]}({entry.split(',')[0][-2:]}):{entry.split(',')[1]}"
FormatCount(entry) ==
    DropLast(Split(entry, ",")[1], 4) \o <<"(">> \o TakeLast(Split(entry, ",")[1], 2)
        \o <<")", ":">> \o Split(entry, ",")[2]

\* the key split at every comma
KeyPartsEveryComma(key) ==
    LET parts == Split(key, ",") IN
    [name |-> Strip(parts[1]),
     affiliation |-> IF Len(parts) > 1 THEN Strip(parts[2]) ELSE UnknownAffiliation]

\* lines 285-287: the name and the affiliation of a key
KeyParts(key) ==
    LET parts == SplitFirst(key, ",") IN
    [name |-> Strip(parts[1]),
     affiliation |-> IF Len(parts) > 1 THEN Strip(parts[2]) ELSE UnknownAffiliation]

\* lines 296-298: the Author URL cell; csv.writer writes None as the empty string
AuthorUrlCell(professor_name) ==
    LET author_data == load_cache(AuthorFileOf(AuthorKey(professor_name))) IN
    IF "profile_url" \notin DOMAIN author_data THEN UnknownURL
    ELSE IF author_data.profile_url = None THEN <<>>
    ELSE author_data.profile_url[1]

\* lines 283-301: the row of one entry of the dict
CsvRow(key, counts) ==
    [name |-> KeyParts(key).name,
     affiliation |-> KeyParts(key).affiliation,
     counts |-> Join([j \in 1..Len(counts) |-> FormatCount(counts[j])], <<";", " ">>),
     url |-> AuthorUrlCell(KeyParts(key).name)]

\* the rows generate_professor_paper_count_csv writes after the header
CsvRows(dict) == [i \in 1..Len(dict) |-> CsvRow(dict[i].key, dict[i].value)]

AllButReport == <<run, confFile, authorFile, allPapersFile, idx, retries, all_papers,
                  collectNet, fetchedNow, ClassifierLocals, RunGhosts>>

\* the dictionary returned without being saved
build_professor_paper_count_dictUnsaved(ok) ==
    /\ pc = "aggregate"
    /\ IF ok
       THEN /\ professor_paper_count_dict' = ProfessorCountDict(all_papers)
            /\ pc' = "report"
       ELSE /\ pc' = "aborted"
            /\ UNCHANGED professor_paper_count_dict
    /\ writeFailed' = ~ok
    /\ NoObservation
    /\ UNCHANGED <<countsFile, csvFile, AllButReport>>
    /\ UNCHANGED Aside

\* build_professor_paper_count_dict, lines 228-263, called at line 312 of main.  The
\* save_cache of line 261 is outside every try.
build_professor_paper_count_dict(ok) ==
    /\ pc = "aggregate"
    /\ IF ok
       THEN /\ professor_paper_count_dict' = ProfessorCountDict(all_papers)
            /\ countsFile' = Some(ProfessorCountDict(all_papers))
            /\ pc' = "report"
       ELSE /\ pc' = "aborted"
            /\ UNCHANGED <<professor_paper_count_dict, countsFile>>
    /\ writeFailed' = ~ok
    /\ NoObservation
    /\ UNCHANGED <<csvFile, AllButReport>>
    /\ UNCHANGED Aside

\* generate_professor_paper_count_csv, lines 276-303, called at line 315 of main
generate_professor_paper_count_csv ==
    /\ pc = "report"
    /\ csvFile' = Some(CsvRows(professor_paper_count_dict))
    /\ pc' = "done"
    /\ NoObservation
    /\ writeFailed' = FALSE
    /\ UNCHANGED <<professor_paper_count_dict, countsFile, AllButReport>>
    /\ UNCHANGED Aside

---------------------------------------------------------------------------
(* The pipeline *)

FullyCached(files) == \A c \in Cells : Truthy(load_cache(files[c]))

\* the processes of the classifier on a shared store
Procs == {1, 2}

\* a process that was not started
ProcOff == [pc |-> "off", todo |-> {}, cur |-> None, author_cache |-> EmptyDict,
            profile_cache |-> EmptyDict, profile_url |-> None, pub_count |-> 0]

TwoProcessAtRest ==
    /\ procs = [p \in Procs |-> ProcOff]
    /\ finalizedKeys = {}

NewSearchAtRest ==
    /\ professor_dict = <<>>
    /\ professorPapersFile = None

\* build_professor_paper_dict of search.py not called
SearchOff == [pc |-> "off", papers |-> <<>>, i |-> 1, j |-> 1, checked_authors |-> {},
              professor_dict |-> <<>>, classified |-> <<>>]

SearchAtRest ==
    /\ search = SearchOff

\* is_professor_on_google not called
GoogleOff == [pc |-> "off", max_retries |-> 0, attempt |-> 0, requests |-> 0, last |-> None,
              retriedOn |-> {}, ret |-> None]

GoogleAtRest ==
    /\ google = GoogleOff

\* the paths remove_empty_rows is called with
CsvPaths == {"input_csv", "output_csv", "output_csv_2"}

RowsAtRest ==
    /\ csvFiles = [f \in CsvPaths |-> None]
    /\ csvCalls = <<>>

AsideAtRest ==
    /\ TwoProcessAtRest
    /\ NewSearchAtRest
    /\ SearchAtRest
    /\ GoogleAtRest
    /\ RowsAtRest

PipelineInit ==
    /\ run = 1
    /\ pc = "collect"
    /\ confFile = [c \in Cells |-> None]
    /\ authorFile = [k \in AuthorKeys |-> None]
    /\ allPapersFile = None
    /\ countsFile = None
    /\ csvFile = None
    /\ idx = 1
    /\ retries = 0
    /\ all_papers = <<>>
    /\ todo = {}
    /\ cur = None
    /\ author_cache = EmptyDict
    /\ profile_url = None
    /\ pub_count = 0
    /\ professor_paper_count_dict = <<>>
    /\ lastReq = None
    /\ lastStatus = None
    /\ lastSleep = None
    /\ lastRet = None
    /\ lastBody = None
    /\ writeFailed = FALSE
    /\ fetchedNow = {}
    /\ affFetches = 0
    /\ collectNet = FALSE
    /\ cachedAtStart = FALSE
    /\ prevPapers = <<>>
    /\ noMatchNow = {}
    /\ noMatchPrev = {}

Init ==
    /\ PipelineInit
    /\ AsideAtRest

\* main is started again on the cache the previous run has left (a process that an
\* exception has ended is not started again within the model)
NextRun ==
    /\ pc = "done"
    /\ run < MaxRuns
    /\ run' = run + 1
    /\ pc' = "collect"
    /\ idx' = 1
    /\ all_papers' = <<>>
    /\ professor_paper_count_dict' = <<>>
    /\ collectNet' = FALSE
    /\ cachedAtStart' = FullyCached(confFile)
    /\ prevPapers' = all_papers
    /\ noMatchPrev' = noMatchNow
    /\ noMatchNow' = {}
    /\ affFetches' = 0
    /\ NoObservation
    /\ writeFailed' = FALSE
    /\ fetchedNow' = {}
    /\ UNCHANGED <<confFile, authorFile, allPapersFile, countsFile, csvFile, retries,
                   todo, cur, author_cache, profile_url, pub_count>>
    /\ UNCHANGED Aside

Next ==
    \/ QueryCached
    \/ \E outcome \in ConfOutcomes, ok \in BOOLEAN : QueryRequest(outcome, ok)
    \/ \E ok \in BOOLEAN : CollectDone(ok)
    \/ \E author \in Names : ProcessAuthorBegin(author)
    \/ GetProfileCached
    \/ \E outcome \in AuthorOutcomes(IF cur = None THEN ASmith ELSE cur[1]) :
          \E ok \in BOOLEAN : GetProfileRequest(outcome, ok)
    \/ \E outcome \in ProfileOutcomes, ok \in BOOLEAN : GetPublicationCount(outcome, ok)
    \/ \E outcome \in ProfileOutcomes, ok \in BOOLEAN : GetLatestAffiliation(outcome, ok)
    \/ ClassifyDone
    \/ \E ok \in BOOLEAN : build_professor_paper_count_dict(ok)
    \/ generate_professor_paper_count_csv
    \/ NextRun

Spec == Init /\ [][Next]_vars

---------------------------------------------------------------------------
(* The two searches under a remote source that keeps answering 429: the    *)
(* pipeline up to the return of get_dblp_author_profile, the chain of      *)
(* retries bounded by the interpreter's stack only.  A request is a        *)
(* blocking call that the transport answers or ends by an exception, hence *)
(* the weak fairness of the steps.                                         *)

OK200 == Some([status |-> 200, body |-> Some(<<R1, R2>>)])
TooManyRequests == Some([status |-> 429, body |-> None])
Found(author) == Some([status |-> 200, body |-> Some(Some(UrlOf(author)))])

NextRetry ==
    \/ \E outcome \in {OK200, TooManyRequests} :
          QueryRequestUpTo(outcome, TRUE, RECURSION_LIMIT)
    \/ CollectDone(TRUE)
    \/ \E author \in Names : ProcessAuthorBegin(author)
    \/ \E outcome \in {Found(IF cur = None THEN ASmith ELSE cur[1]), TooManyRequests} :
          GetProfileRequestUpTo(outcome, TRUE, RECURSION_LIMIT)

SpecRetry == Init /\ [][NextRetry]_vars /\ WF_vars(NextRetry)

---------------------------------------------------------------------------
(* Properties of the collector and of the classifier *)

RecordOf(author) == load_cache(AuthorFileOf(AuthorKey(author)))

ConferenceRequest(cell) == Some([kind |-> "conference", key |-> cell])
AuthorRequest(author) == Some([kind |-> "author", key |-> author])

LastKind == IF lastReq = None THEN "none" ELSE lastReq[1].kind

\* C1, step part: a step of the collector at a cell whose cached entry is present and
\* non-empty issues no request, returns (False, the cached list) and leaves every
\* conference entry as it is.
CachedCellStep ==
    (pc = "collect" /\ idx <= Len(Grid) /\ load_cache(confFile[Grid[idx]]) # <<>>)
        => /\ lastReq' = None
           /\ lastRet' = Some([is_sleep |-> FALSE, papers |-> load_cache(confFile[Grid[idx]])])
           /\ confFile' = confFile

\* C1, run part: once the collector of a run that started on a fully cached grid has
\* returned, it has issued no request and its Paper list is the list of the previous run.
CachedRunRepeats ==
    (pc # "collect" /\ cachedAtStart) => (~collectNet /\ all_papers = prevPapers)

\* C1 (collector idempotence): a cached, non-empty cell is served without a network
\* request, with the cached list, sleep flag false and the entry unchanged; a run over a
\* fully cached grid performs no network call and returns the Paper list of the run before.
C1_CollectorIdempotence == [][CachedCellStep]_vars /\ []CachedRunRepeats

\* C1 witness: a second run over a fully cached grid has returned a non-empty list
C1_Witness ==
    /\ run = 2
    /\ cachedAtStart
    /\ pc = "classify"
    /\ all_papers # <<>>
    /\ lastReq = None

\* C2, step part: the iteration of an author whose stored record contains is_professor
\* issues no request, writes no author record and sleeps not.
FinalizedAuthorStep ==
    \A author \in todo :
        (pc = "classify" /\ "is_professor" \in DOMAIN RecordOf(author) /\ author \notin todo')
            => /\ lastReq' = None
               /\ lastSleep' = None
               /\ authorFile' = authorFile
               /\ pc' = "classify"
               /\ cur' = None

\* C2, state part: no request of the classifier is ever pending for a finalized author
NoRequestForFinalized ==
    pc \in {"profile", "pubcount", "affil"} => "is_professor" \notin DOMAIN RecordOf(cur[1])

\* C2 (finalization monotonicity): for an author whose record contains is_professor, true
\* or false, a pass of process_all_authors issues no author-search, publication-count or
\* affiliation request, writes nothing to the record and applies no politeness delay.
C2_FinalizationMonotonicity == [][FinalizedAuthorStep]_vars /\ []NoRequestForFinalized

\* C2 witness: the first author of a pass was finalized with is_professor false and has
\* been passed over
C2_Witness ==
    /\ run = 2
    /\ pc = "classify"
    /\ lastReq = None
    /\ lastSleep = None
    /\ \E author \in AuthorsOf(all_papers) :
          /\ todo = AuthorsOf(all_papers) \ {author}
          /\ "is_professor" \in DOMAIN RecordOf(author)
          /\ ~RecordOf(author).is_professor

\* C3, step part: the step that finalizes a record stores is_professor as
\* pub_count >= 20, and the iteration has issued one affiliation request if
\* pub_count >= 20 and none otherwise.
FinalizingStep ==
    \A key \in AuthorKeys :
        LET before == load_cache(authorFile[key])
            after == load_cache(authorFile'[key]) IN
        ("is_professor" \notin DOMAIN before /\ "is_professor" \in DOMAIN after)
            => /\ after.is_professor = (after.pub_count >= 20)
               /\ affFetches' = (IF after.pub_count >= 20 THEN 1 ELSE 0)
               /\ (after.pub_count < 20 => lastReq'[1].kind = "pubcount")
               /\ (after.pub_count >= 20 => lastReq'[1].kind = "affiliation")

\* C3, state part: every finalized record has is_professor = (pub_count >= 20)
ThresholdStored ==
    \A key \in AuthorKeys :
        LET record == load_cache(authorFile[key]) IN
        "is_professor" \in DOMAIN record => (record.is_professor = (record.pub_count >= 20))

\* C3 (threshold correctness): every author process_all_authors finalizes has is_professor
\* true exactly when publication_count >= 20; below 20 no affiliation fetch is issued, from
\* 20 on it is issued exactly once.
C3_ThresholdCorrectness == [][FinalizingStep]_vars /\ []ThresholdStored

\* C3 witness: an author with 20 publications has just been finalized as a professor after
\* one affiliation fetch
C3_Witness ==
    /\ LastKind = "affiliation"
    /\ affFetches = 1
    /\ ~writeFailed
    /\ RecordOf(lastReq[1].key).pub_count = 20
    /\ RecordOf(lastReq[1].key).is_professor

\* C4, failure part: a conference request answered by a status other than 200 and 429
\* returns (False, []) and writes no conference entry; the entry of its cell is still
\* absent or empty.
FailedCellStep ==
    (/\ lastReq' # None
     /\ lastReq'[1].kind = "conference"
     /\ lastStatus' # None
     /\ lastStatus'[1] \notin {200, 429})
        => /\ lastRet' = Some([is_sleep |-> FALSE, papers |-> <<>>])
           /\ confFile' = confFile
           /\ load_cache(confFile'[lastReq'[1].key]) = <<>>

\* C4, retry part: whenever the collector, in this or a later run, comes to a cell whose
\* entry is absent or empty, it issues the conference request of that cell.
UncachedCellStep ==
    (pc = "collect" /\ idx <= Len(Grid) /\ load_cache(confFile[Grid[idx]]) = <<>>)
        => lastReq' = ConferenceRequest(Grid[idx])

\* C4 (failure propagation): a conference search of an uncached cell that is answered by a
\* status other than 200 and 429 yields (False, []) and no cache entry, and so the next
\* run, finding no entry, issues the request of that cell again.
C4_FailurePropagation == [][FailedCellStep]_vars /\ [][UncachedCellStep]_vars

\* C4 witness: in the second run the request of a cell without entry has been answered 500
C4_Witness ==
    /\ run = 2
    /\ LastKind = "conference"
    /\ lastStatus = Some(500)
    /\ confFile[lastReq[1].key] = None
    /\ lastRet = Some([is_sleep |-> FALSE, papers |-> <<>>])

\* C5, backoff part: a search request answered 429 is followed by the [60, 120] backoff;
\* nothing is returned to the caller, nothing is written, and the fetcher stays at the
\* same request.
RateLimitedSearchStep ==
    (/\ lastReq' # None
     /\ lastReq'[1].kind \in {"conference", "author"}
     /\ lastStatus' = Some(429))
        => /\ lastSleep' = <<60, 120>>
           /\ lastRet' = None
           /\ confFile' = confFile
           /\ authorFile' = authorFile
           /\ all_papers' = all_papers
           /\ pc' = pc /\ idx' = idx /\ cur' = cur /\ todo' = todo

\* C5, retry part: the step after a search request answered 429 issues the same request
SameRequestAfter429 ==
    (/\ lastReq # None
     /\ lastReq[1].kind \in {"conference", "author"}
     /\ lastStatus = Some(429))
        => lastReq' = lastReq

\* C5 (rate-limit retry of search requests): a 429 to a conference search or an author
\* search is followed by a backoff in [60 s, 120 s] and the same request again, whatever
\* the number of attempts so far; it is not returned as 'no result', causes no cache write,
\* and no other request comes in between.
C5_RateLimitRetry == [][RateLimitedSearchStep]_vars /\ [][SameRequestAfter429]_vars

\* C20: a step in which a search request is answered 429
RateLimitedNow ==
    /\ lastReq' # None
    /\ lastReq'[1].kind \in {"conference", "author"}
    /\ lastStatus' = Some(429)

\* C20, first half: in a behaviour with finitely many 429 answers, every call of
\* query_dblp and every call of get_dblp_author_profile returns
ReturnsWhenFinitelyLimited ==
    (<>[][~RateLimitedNow]_vars) =>
        /\ \A i \in 1..Len(Grid) :
              (pc = "collect" /\ idx = i) ~> (pc # "collect" \/ idx # i)
        /\ \A author \in Names :
              (pc = "profile" /\ cur = Some(author)) ~> (pc # "profile" \/ cur # Some(author))

\* C20, second half: a search has returned to its caller on an answer 429
GaveUp ==
    /\ lastStatus = Some(429)
    /\ \/ LastKind = "conference" /\ lastRet # None
       \/ LastKind = "author" /\ pc # "profile"

\* C20 (rate-limit liveness): if the source answers 429 only finitely often, query_dblp and
\* get_dblp_author_profile return; as long as it answers 429 they do not return, there is
\* no state in which they have given up.
C20_RateLimitLiveness == ReturnsWhenFinitelyLimited /\ []~GaveUp

\* C6 (rate-limit retry of profile-document requests): a publication-count or affiliation
\* request answered 429 is followed by the backoff and the same request again; it is
\* neither taken as a payload nor as a failure.
C6_ProfileRateLimitRetry ==
    [][(/\ lastReq' # None
        /\ lastReq'[1].kind \in {"pubcount", "affiliation"}
        /\ lastStatus' = Some(429))
           => /\ lastSleep' = <<60, 120>>
              /\ authorFile' = authorFile
              /\ pc' = pc /\ cur' = cur]_vars

\* C10 (unresolved profile is retried): in the run after an author search that succeeded
\* without a match, get_dblp_author_profile issues the author search for that author again.
C10_UnresolvedRetried ==
    [][(pc = "profile" /\ cur[1] \in noMatchPrev) => lastReq' = AuthorRequest(cur[1])]_vars

\* C11, step part: no step removes a field from a stored author record, and no step
\* changes is_professor, pub_count, affiliation or profile_url of a record that contains
\* is_professor.
RecordsOnlyGrow ==
    \A key \in AuthorKeys :
        LET before == load_cache(authorFile[key])
            after == load_cache(authorFile'[key]) IN
        /\ \A field \in DOMAIN before : field \in DOMAIN after
        /\ "is_professor" \in DOMAIN before
              => /\ after.is_professor = before.is_professor
                 /\ after.pub_count = before.pub_count
                 /\ after.affiliation = before.affiliation
                 /\ after.profile_url = before.profile_url

\* C11 (monotonic cache enrichment): over all classifier steps and runs the set of fields
\* of a stored author record never shrinks, and once is_professor is present, its value,
\* pub_count, affiliation and profile_url stay as they are.
C11_MonotonicEnrichment == [][RecordsOnlyGrow]_vars

\* C11 witness: in the second run a record has just been finalized with an affiliation, on
\* top of the profile_url stored before
C11_Witness ==
    /\ run = 2
    /\ LastKind = "affiliation"
    /\ lastSleep = <<2, 5>>
    /\ \E key \in AuthorKeys :
          /\ DOMAIN load_cache(authorFile[key]) =
                 {"profile_url", "pub_count", "affiliation", "is_professor"}
          /\ load_cache(authorFile[key]).is_professor

\* C12 (persistence failures are fatal): a step in which a cache write raises ends the
\* pipeline run; the run does not go on with a 'no result' outcome.
C12_PersistenceFailuresFatal == [][writeFailed' => pc' = "aborted"]_vars

\* query_dblp of script.py, lines 35-47: a result without title gets the title "N/A"
ParseWithSentinel(body) ==
    [i \in 1..Len(body[1]) |->
        [title |-> IF body[1][i].has_title THEN body[1][i].title ELSE "N/A",
         authors |-> body[1][i].authors]]

\* C13 (malformed sub-fields degrade): when a conference search is answered 200 with a
\* result that has no title, and the cache write succeeds, query_dblp returns and caches
\* all the results, the malformed one with the title 'N/A'.
C13_MalformedResultsDegrade ==
    [][(/\ lastReq' # None
        /\ lastReq'[1].kind = "conference"
        /\ lastStatus' = Some(200)
        /\ lastBody' # None
        /\ \E i \in 1..Len(lastBody'[1]) : ~lastBody'[1][i].has_title
        /\ ~writeFailed')
           => /\ lastRet' = Some([is_sleep |-> TRUE, papers |-> ParseWithSentinel(lastBody')])
              /\ confFile'[lastReq'[1].key] = Some(ParseWithSentinel(lastBody'))]_vars

\* C14, step part: a conference search or an author search is answered otherwise than by
\* 429, and a publication-count or affiliation request is issued, only for a cell or an
\* author for which the same has not happened before in this run.
FirstFetchOfKey ==
    (/\ lastReq' # None
     /\ lastReq'[1].kind \in {"pubcount", "affiliation"} \/ lastStatus' # Some(429))
        => lastReq'[1] \notin fetchedNow

\* C14 (at most one fetch per key per run): within a run every grid cell gets at most one
\* answer other than 429 to its conference search, and every author at most one such
\* answer to the author search, one publication-count request and one affiliation request.
C14_OneFetchPerKey == [][FirstFetchOfKey]_vars

\* C14 witness: the classifier is through, an author listed on two papers has had its
\* search, its publication count and its affiliation fetched, every cell has been fetched
C14_Witness ==
    /\ pc = "aggregate"
    /\ \A i \in 1..Len(Grid) : [kind |-> "conference", key |-> Grid[i]] \in fetchedNow
    /\ \E author \in Names :
          /\ Cardinality({i \in 1..Len(all_papers) :
                            \E j \in 1..Len(all_papers[i].authors) :
                                all_papers[i].authors[j] = author}) >= 2
          /\ \A kind \in {"author", "pubcount", "affiliation"} :
                [kind |-> kind, key |-> author] \in fetchedNow

\* the stored record of author holds a profile_url that is not None
Resolved(author) ==
    "profile_url" \in DOMAIN RecordOf(author) /\ RecordOf(author).profile_url # None

\* C16, return part: get_dblp_author_profile, called for an author with a resolved
\* profile_url in the store, issues no request and returns the stored value
ResolvedIsReturned ==
    (pc = "profile" /\ Resolved(cur[1]))
        => /\ lastReq' = None
           /\ pc' = "pubcount"
           /\ profile_url' = RecordOf(cur[1]).profile_url

\* C16, permanence part: no step issues the author search of an author whose stored
\* profile_url is resolved, and no step changes that profile_url
ResolvedIsKept ==
    \A author \in Names :
        Resolved(author)
            => /\ lastReq' # AuthorRequest(author)
               /\ load_cache(authorFile'[AuthorKey(author)]).profile_url
                      = RecordOf(author).profile_url

\* C16 (profile reference is permanently cached): once a stored record holds a resolved
\* profile_url, get_dblp_author_profile returns it and no author search is issued for that
\* name in this or a later run, also for an author abandoned before finalization.
C16_ProfileUrlCached == [][ResolvedIsReturned]_vars /\ [][ResolvedIsKept]_vars

\* C16 witness: in the second run the stored profile_url of an author that was abandoned
\* before finalization has been returned without a request
C16_Witness ==
    /\ run = 2
    /\ pc = "pubcount"
    /\ lastReq = None
    /\ "is_professor" \notin DOMAIN RecordOf(cur[1])
    /\ profile_url = Some(UrlOf(cur[1]))

\* C17 (publication-count failure abandons the author): a publication-count request that
\* ends by an exception of the transport, by a status other than 200 or by a body that is
\* no document leaves the author's record as it is and ends the iteration; an author
\* left at the publication count has that request issued.
C17_PubCountFailureAbandons ==
    /\ [][(/\ lastReq' # None
           /\ lastReq'[1].kind = "pubcount"
           /\ lastStatus' # Some(200) \/ lastBody' = None)
              => /\ authorFile' = authorFile
                 /\ pc' = "classify"
                 /\ cur' = None]_vars
    /\ [][pc = "pubcount" => lastReq' = Some([kind |-> "pubcount", key |-> cur[1]])]_vars

\* C18, step part: a conference search answered 200 with no result, the cache write
\* succeeding, stores the empty list, returns (True, []) and is followed by the delay
EmptyResultStep ==
    (/\ lastReq' # None
     /\ lastReq'[1].kind = "conference"
     /\ lastStatus' = Some(200)
     /\ lastBody' = Some(<<>>)
     /\ ~writeFailed')
        => /\ confFile'[lastReq'[1].key] = Some(<<>>)
           /\ lastRet' = Some([is_sleep |-> TRUE, papers |-> <<>>])
           /\ lastSleep' = <<2, 5>>

\* C18, later part: the collector at a cell whose stored entry is the empty list issues
\* the conference request of that cell
EmptyEntryStep ==
    (pc = "collect" /\ idx <= Len(Grid) /\ confFile[Grid[idx]] = Some(<<>>))
        => lastReq' = ConferenceRequest(Grid[idx])

\* C18 (empty-result idempotence gap): a successful conference search with zero papers
\* persists the empty list and reports that a sleep is needed; every later run takes the
\* cell for never fetched and issues the request again.
C18_EmptyResultRefetched == [][EmptyResultStep]_vars /\ [][EmptyEntryStep]_vars

\* C18 witness: in the second run the request of a cell whose entry is the empty list has
\* been issued and answered 500, the entry still the empty list
C18_Witness ==
    /\ run = 2
    /\ LastKind = "conference"
    /\ lastStatus = Some(500)
    /\ confFile[lastReq[1].key] = Some(<<>>)

\* C19: the papers of the cell just done came from a successful network fetch: a request
\* was answered 200, every result of the body had its title, the entry was written
FetchedFromNetwork ==
    /\ lastReq # None
    /\ lastStatus = Some(200)
    /\ lastBody # None
    /\ \A i \in 1..Len(lastBody[1]) : lastBody[1][i].has_title
    /\ ~writeFailed

\* C19 (collector politeness delay): the step that ends a grid cell applies the [2 s, 5 s]
\* delay exactly when the papers of the cell came from a successful network fetch; a cell
\* served from the cache and a cell whose fetch failed are followed by no delay.
C19_CollectorPoliteness ==
    [][(pc = "collect" /\ idx' = idx + 1)
          => /\ (lastSleep' = <<2, 5>>) <=> FetchedFromNetwork'
             /\ lastSleep' \in {None, <<2, 5>>}]_vars

\* C19 witness: the last cell of the grid of the second run has been fetched and followed
\* by the delay, after a cell that was served from the cache without one
C19_Witness ==
    /\ run = 2
    /\ pc = "collect"
    /\ idx = Len(Grid) + 1
    /\ lastSleep = <<2, 5>>
    /\ LastKind = "conference"
    /\ [kind |-> "conference", key |-> Grid[1]] \notin fetchedNow

\* C21, step part: the step that writes the report finds the dictionary in the snapshot,
\* writes the rows that generate_professor_paper_count_csv derives from the snapshot and
\* the author cache, and issues no request
ReportFromSnapshot ==
    (pc = "report" /\ pc' = "done")
        => /\ countsFile = Some(professor_paper_count_dict)
           /\ csvFile' = Some(CsvRows(load_cache(countsFile)))
           /\ lastReq' = None
           /\ countsFile' = countsFile /\ authorFile' = authorFile

\* C21, order part: the report is written by no other step
ReportOnlyAfterSnapshot == csvFile' # csvFile => (pc = "report" /\ pc' = "done")

\* C21 (snapshot before rendering): in every run the whole dictionary is saved to the
\* snapshot before the report is written, and the report is what
\* generate_professor_paper_count_csv makes of the snapshot and the author cache, without a
\* network call.
C21_SnapshotBeforeRendering == [][ReportFromSnapshot]_vars /\ [][ReportOnlyAfterSnapshot]_vars

\* C21 witness: the second run has written a report with a row from its snapshot
C21_Witness ==
    /\ run = 2
    /\ pc = "done"
    /\ countsFile # None
    /\ countsFile[1] # <<>>
    /\ csvFile = Some(CsvRows(countsFile[1]))

\* C24, flat part: once the collector has returned, every Paper of its list and of the
\* all_papers snapshot carries venue, year and conference = venue ++ year of a grid cell
AnnotatedList(papers) ==
    \A i \in 1..Len(papers) :
        /\ {"venue", "year", "conference"} \subseteq DOMAIN papers[i]
        /\ [venue |-> papers[i].venue, year |-> papers[i].year] \in Cells
        /\ papers[i].conference = papers[i].venue \o Str(papers[i].year)

\* C24, per-cell part: the Papers stored under the key of a cell carry the conference id
\* of that cell
AnnotatedCell(cell) ==
    \A i \in 1..Len(load_cache(confFile[cell])) :
        /\ "conference" \in DOMAIN load_cache(confFile[cell])[i]
        /\ load_cache(confFile[cell])[i].conference = cell.venue \o Str(cell.year)

\* C24 (conference id on collected papers): every Paper of the flat sequence returned by
\* fetch_all_conference_papers and of the all_papers snapshot carries venue, year and
\* conference = venue ++ year of its cell, and so does every Paper of the list stored
\* under the key of a cell.
C24_ConferenceIdAttached ==
    /\ pc # "collect" => AnnotatedList(all_papers)
    /\ AnnotatedList(load_cache(allPapersFile))
    /\ \A cell \in Cells : AnnotatedCell(cell)

\* C27, record part: a stored record with is_professor has a non-empty profile_url, an
\* integer pub_count and an affiliation, is_professor = (pub_count >= 20), and the
\* affiliation 'Unknown' when is_professor is false
FinalizedRecordShape(record) ==
    "is_professor" \in DOMAIN record
        => /\ DOMAIN record = {"profile_url", "pub_count", "affiliation", "is_professor"}
           /\ record.profile_url # None
           /\ record.profile_url[1] # <<>>
           /\ record.pub_count \in Nat
           /\ record.is_professor = (record.pub_count >= 20)
           /\ record.affiliation \in Seq({record.affiliation[i] : i \in 1..Len(record.affiliation)})
           /\ ~record.is_professor => record.affiliation = Unknown

\* C27, sentinel part: after an affiliation fetch that ended by an exception, by a body
\* that is no document or by a document without affiliation note, the record whose write
\* succeeded is that of a professor with the affiliation 'Unknown Affiliation'
SentinelStored ==
    (/\ LastKind = "affiliation"
     /\ ~writeFailed
     /\ lastStatus = None \/ lastBody = None \/ lastBody = Some(None))
        => /\ "is_professor" \in DOMAIN RecordOf(lastReq[1].key)
           /\ RecordOf(lastReq[1].key).is_professor
           /\ RecordOf(lastReq[1].key).affiliation = UnknownAffiliation

\* C27 (finalized-record invariant): in every state of the store a record with
\* is_professor has a non-empty profile_url, an integer pub_count and an affiliation string,
\* with is_professor = (pub_count >= 20) and affiliation 'Unknown' when is_professor is
\* false; a failed or empty affiliation fetch finalizes the record as professor with the
\* sentinel 'Unknown Affiliation'.
C27_FinalizedRecordInvariant ==
    /\ \A key \in AuthorKeys : FinalizedRecordShape(load_cache(authorFile[key]))
    /\ SentinelStored

\* C27 witness: a transport error of the affiliation fetch has left a professor with the
\* sentinel, next to a finalized record of an author that is no professor
C27_Witness ==
    /\ LastKind = "affiliation"
    /\ lastStatus = None
    /\ ~writeFailed
    /\ RecordOf(lastReq[1].key).affiliation = UnknownAffiliation
    /\ \E key \in AuthorKeys :
          /\ "is_professor" \in DOMAIN load_cache(authorFile[key])
          /\ ~load_cache(authorFile[key]).is_professor

---------------------------------------------------------------------------
(* The aggregator and the reporter on their own: main from line 312 on,    *)
(* started on a Paper list the collector can return and on an author cache *)
(* the classifier can leave.                                               *)

SpaceLi == <<" ", "L", "i">>

ReportNames == {ASmith, SpaceLi}

\* cells of the code's grid, in its order: NeurIPS before DAC, years ascending
ReportCells == <<[venue |-> NeurIPS, year |-> FirstYear + 3],
                 [venue |-> DAC, year |-> FirstYear + 1],
                 [venue |-> DAC, year |-> FirstYear + 2]>>

ReportResults == {[title |-> "T1", authors |-> <<ASmith>>],
                  [title |-> "T2", authors |-> <<SpaceLi, ASmith>>]}

\* flat Paper lists of at most MaxPapers papers, in the order of the grid
ReportPaperLists ==
    LET Pool == (1..Len(ReportCells)) \X ReportResults
        Picks == UNION {[1..n -> Pool] : n \in 0..MaxPapers}
        Ordered == {p \in Picks : \A i \in 1..(Len(p) - 1) : p[i][1] <= p[i + 1][1]} IN
    {[i \in 1..Len(p) |-> Annotate(<<p[i][2]>>, ReportCells[p[i][1]])[1]] : p \in Ordered}

\* affiliation texts a profile document may hold
ReportNotes == {None, Some(<<" ">> \o XUniversity), Some(MITCSAIL \o <<" ">>)}

\* the files the classifier can leave for an author: none, an unmatched search, or a
\* finalized record
ReportFiles(author) ==
    {None, Some([profile_url |-> None])}
    \cup {Some(FinalRecord(EmptyDict, Some(UrlOf(author)), 19, Unknown))}
    \cup {Some(FinalRecord(EmptyDict, Some(UrlOf(author)), 25,
                           get_latest_affiliation(Some([status |-> 200,
                               body |-> Some([rcount |-> 25, note |-> t])])))) :
             t \in ReportNotes}

ReportStores ==
    {[k \in {AuthorKey(ASmith), AuthorKey(SpaceLi)} |->
         IF k = AuthorKey(ASmith) THEN fa ELSE fl] :
        fa \in ReportFiles(ASmith), fl \in ReportFiles(SpaceLi)}

InitReport ==
    /\ run = 1
    /\ pc = "aggregate"
    /\ confFile = [c \in Cells |-> None]
    /\ authorFile \in ReportStores
    /\ all_papers \in ReportPaperLists
    /\ allPapersFile = Some(all_papers)
    /\ countsFile = None
    /\ csvFile = None
    /\ idx = Len(Grid) + 1
    /\ retries = 0
    /\ todo = {}
    /\ cur = None
    /\ author_cache = EmptyDict
    /\ profile_url = None
    /\ pub_count = 0
    /\ professor_paper_count_dict = <<>>
    /\ lastReq = None
    /\ lastStatus = None
    /\ lastSleep = None
    /\ lastRet = None
    /\ lastBody = None
    /\ writeFailed = FALSE
    /\ fetchedNow = {}
    /\ affFetches = 0
    /\ collectNet = FALSE
    /\ cachedAtStart = FALSE
    /\ prevPapers = <<>>
    /\ noMatchNow = {}
    /\ noMatchPrev = {}
    /\ AsideAtRest

NextReport ==
    \/ \E ok \in BOOLEAN : build_professor_paper_count_dict(ok)
    \/ generate_professor_paper_count_csv

SpecReport == InitReport /\ [][NextReport]_vars

---------------------------------------------------------------------------
(* Properties of the aggregator and of the reporter *)

\* venue + '(' + last two digits of the year + '):' + n, of a conference id venue ++ year
ExpectedToken(conference, n) ==
    DropLast(conference, 4) \o <<"(">> \o TakeLast(conference, 2) \o <<")", ":">> \o Str(n)

\* the counts per professor key and conference, in order of first occurrence
Counted == CountPapers(<<>>, all_papers, 1)

\* the Paper Counts cell of the claim for the i-th professor key
ExpectedCounts(i) ==
    Join([j \in 1..Len(Counted[i].value) |->
             ExpectedToken(Counted[i].value[j].key, Counted[i].value[j].value)],
         <<";", " ">>)

NeurIPS23Count3 == <<"N", "e", "u", "r", "I", "P", "S", "(", "2", "3", ")", ":", "3">>

\* C7 (count formatting): every token of the rendered report is venue + '(' + the last two
\* digits of the year + '):' + n and nothing else; NeurIPS2023 with count 3 is rendered
\* NeurIPS(23):3.
C7_CountFormatting ==
    pc = "done" =>
        /\ \A i \in 1..Len(Counted) : csvFile[1][i].counts = ExpectedCounts(i)
        /\ \A i \in 1..Len(Counted) :
              Counted[i].value = <<[key |-> ConferenceId(NeurIPS, 2023), value |-> 3]>>
                  => csvFile[1][i].counts = NeurIPS23Count3

Professors ==
    {a \in AuthorsOf(all_papers) :
        "is_professor" \in DOMAIN RecordOf(a) /\ RecordOf(a).is_professor}

\* the key build_professor_paper_count_dict derives for a professor
KeyOf(author) == author \o <<",", " ">> \o RecordOf(author).affiliation

SmithScenario ==
    /\ all_papers = Annotate(<<[title |-> "T1", authors |-> <<ASmith>>]>>,
                             [venue |-> DAC, year |-> 2021])
                    \o Annotate(<<[title |-> "T1", authors |-> <<ASmith>>]>>,
                                [venue |-> DAC, year |-> 2022])
    /\ RecordOf(ASmith) = [profile_url |-> Some(UrlOf(ASmith)), pub_count |-> 25,
                           affiliation |-> XUniversity, is_professor |-> TRUE]

SmithRow ==
    [name |-> ASmith,
     affiliation |-> XUniversity,
     counts |-> <<"D", "A", "C", "(", "2", "1", ")", ":", "1", ";", " ",
                  "D", "A", "C", "(", "2", "2", ")", ":", "1">>,
     url |-> UrlOf(ASmith)]

\* C8 (end-to-end counts report): the report has one row per professor key, whose Paper
\* Counts cell joins with '; ' one token per conference of the professor in order of first
\* occurrence and whose URL cell is the cached profile_url; for two papers at DAC2021 and
\* DAC2022 by A. Smith (25 publications, X University) the single row is
\* (A. Smith, X University, DAC(21):1; DAC(22):1, profile url).
C8_EndToEndReport ==
    pc = "done" =>
        /\ Len(csvFile[1]) = Cardinality({KeyOf(a) : a \in Professors})
        /\ \A a \in Professors :
              \E i \in 1..Len(Counted) :
                  /\ Counted[i].key = KeyOf(a)
                  /\ csvFile[1][i].counts = ExpectedCounts(i)
                  /\ csvFile[1][i].url = RecordOf(a).profile_url[1]
        /\ SmithScenario => csvFile[1] = <<SmithRow>>

\* the places <<paper, position>> at which author stands in the author lists of the
\* papers of conference
Occurrences(author, conference) ==
    {place \in UNION {{<<i, j>> : j \in 1..Len(all_papers[i].authors)} :
                         i \in 1..Len(all_papers)} :
        /\ all_papers[place[1]].conference = conference
        /\ all_papers[place[1]].authors[place[2]] = author}

ConferencesOf(author) ==
    {all_papers[i].conference : i \in 1..Len(all_papers)} \
        {c \in {all_papers[i].conference : i \in 1..Len(all_papers)} :
            Occurrences(author, c) = {}}

\* C15 (aggregation counts): after build_professor_paper_count_dict the keys of the
\* dictionary are 'name, affiliation' of exactly the authors that stand on a paper and
\* whose stored record has is_professor true, each once, and the entry of such a key for a
\* conference holds the number of occurrences of the author in the author lists of the
\* papers of that conference; an author with is_professor false or absent has no key.
C15_AggregationCounts ==
    pc \in {"report", "done"} =>
        LET dict == professor_paper_count_dict IN
        /\ {dict[i].key : i \in 1..Len(dict)} = {KeyOf(a) : a \in Professors}
        /\ Len(dict) = Cardinality(Professors)
        /\ \A a \in Professors :
              \E i \in 1..Len(dict) :
                  /\ dict[i].key = KeyOf(a)
                  /\ Len(dict[i].value) = Cardinality(ConferencesOf(a))
                  /\ {dict[i].value[j] : j \in 1..Len(dict[i].value)} =
                         {c \o <<",", " ">> \o Str(Cardinality(Occurrences(a, c))) :
                             c \in ConferencesOf(a)}

\* C15 witness: the dictionary is built from papers on which a professor stands twice for
\* one conference and on which an author stands that is no professor
C15_Witness ==
    /\ pc = "report"
    /\ \E a \in Professors : \E c \in ConferencesOf(a) : Cardinality(Occurrences(a, c)) = 2
    /\ AuthorsOf(all_papers) \ Professors # {}
    /\ professor_paper_count_dict # <<>>

NoComma(s) == \A i \in 1..Len(s) : s[i] # ","

NoOuterSpace(s) == s = <<>> \/ (s[1] # " " /\ s[Len(s)] # " ")

\* the row of the professor's key gives back the name and the affiliation
SplitsBack(author) ==
    \E i \in 1..Len(professor_paper_count_dict) :
        /\ professor_paper_count_dict[i].key = KeyOf(author)
        /\ csvFile[1][i].name = author
        /\ csvFile[1][i].affiliation = RecordOf(author).affiliation

\* C9 as stated (key splitting): for every author name without a comma and every
\* affiliation, the name and the affiliation recovered from 'name, affiliation' are the
\* author name and the full affiliation.
C9_KeySplitting ==
    pc = "done" => \A a \in Professors : NoComma(a) => SplitsBack(a)

\* C9 as amended: the same for every author name without a comma that neither starts nor
\* ends with white space, and every affiliation the classifier stores; 'Jane Doe, MIT,
\* CSAIL' gives 'Jane Doe' and 'MIT, CSAIL'.
C9_KeySplittingOfStrippedNames ==
    /\ pc = "done" => \A a \in Professors : (NoComma(a) /\ NoOuterSpace(a)) => SplitsBack(a)
    /\ KeyParts(JaneDoe \o <<",", " ">> \o MITCSAIL) = [name |-> JaneDoe, affiliation |-> MITCSAIL]

\* C9 witness: the report holds the row of a professor whose affiliation has a comma
C9_Witness ==
    /\ pc = "done"
    /\ ASmith \in Professors
    /\ RecordOf(ASmith).affiliation = MITCSAIL
    /\ csvFile[1][1].name = ASmith
    /\ csvFile[1][1].affiliation = MITCSAIL

---------------------------------------------------------------------------
(* One run of the pipeline on an empty store when the publication search   *)
(* returns a paper by two authors whose names differ in a space and an     *)
(* underscore only.                                                        *)

AUnderSmith == <<"A", ".", "_", "S", "m", "i", "t", "h">>

\* an <info> element with both names
R3 == [has_title |-> TRUE, title |-> "T3", authors |-> <<ASmith, AUnderSmith>>]

NamesOutcomes == {None, Some([status |-> 200, body |-> Some(<<R3>>)])}

NextNames ==
    \/ \E outcome \in NamesOutcomes : QueryRequest(outcome, TRUE)
    \/ CollectDone(TRUE)
    \/ \E author \in {ASmith, AUnderSmith} : ProcessAuthorBegin(author)
    \/ GetProfileCached
    \/ \E outcome \in AuthorOutcomes(IF cur = None THEN ASmith ELSE cur[1]) :
          GetProfileRequest(outcome, TRUE)
    \/ \E outcome \in ProfileOutcomes : GetPublicationCount(outcome, TRUE)
    \/ \E outcome \in ProfileOutcomes : GetLatestAffiliation(outcome, TRUE)
    \/ ClassifyDone
    \/ build_professor_paper_count_dict(TRUE)

SpecNames == Init /\ [][NextNames]_vars

\* C22, key part: the author names of the collected papers have pairwise distinct keys
DistinctKeys ==
    \A a, b \in AuthorsOf(all_papers) : a # b => AuthorKey(a) # AuthorKey(b)

\* C22, classifier part: on a store that was empty when the run began no author is
\* skipped as finalized, each name being visited once
NoForeignSkip ==
    ~(/\ run = 1
      /\ pc = "classify"
      /\ pc' = "classify"
      /\ todo' # todo)

\* C22 (one record per distinct author): distinct author names have distinct cache keys,
\* so that finalizing one author never makes the classifier skip another author name.
C22_OneRecordPerAuthor == []DistinctKeys /\ [][NoForeignSkip]_vars

---------------------------------------------------------------------------
(* The classifier of run_search.py run by one or by two processes against  *)
(* one store that starts empty, both on the papers the collector returns.  *)
(* Every step holds one access to a file (load_cache or save_cache) or one *)
(* request with the save that follows it; the steps of the processes       *)
(* interleave freely, nothing locks a file.                                *)

\* the papers both processes classify the authors of
TwoPapers == <<R1, R2>>

\* a process at line 170 with every author ahead
ProcStarted == [ProcOff EXCEPT !.pc = "classify", !.todo = AuthorsOf(TwoPapers)]

\* `continue` in process_all_authors, and the end of an iteration
NextAuthorOf(local) ==
    [local EXCEPT !.pc = "classify", !.cur = None, !.author_cache = EmptyDict,
                  !.profile_cache = EmptyDict, !.profile_url = None, !.pub_count = 0]

\* lines 180-181 after get_dblp_author_profile has returned url
AfterProfileOf(local, url) ==
    IF ~Truthy(url) THEN NextAuthorOf(local)
    ELSE [local EXCEPT !.pc = "pubcount", !.profile_url = url]

\* lines 191-197 in process p: the record loaded at line 173 is updated and saved
SaveAuthorOf(p, count, affiliation) ==
    LET local == procs[p]
        key == AuthorKey(local.cur[1]) IN
    /\ authorFile' = [authorFile EXCEPT ![key] =
           Some(FinalRecord(local.author_cache, local.profile_url, count, affiliation))]
    /\ finalizedKeys' = finalizedKeys \cup {key}
    /\ procs' = [procs EXCEPT ![p] = NextAuthorOf(local)]

\* the variables of the pipeline but the author files
AllButAuthorFile ==
    <<run, pc, confFile, allPapersFile, countsFile, csvFile, idx, retries, all_papers, todo,
      cur, author_cache, profile_url, pub_count, professor_paper_count_dict, lastReq,
      lastStatus, lastSleep, lastRet, lastBody, writeFailed, fetchedNow, affFetches,
      collectNet, cachedAtStart, prevPapers, noMatchNow, noMatchPrev, NewSearchVars, SearchVars, GoogleVars,
      RowsVars>>

\* process_all_authors, lines 170-177, in process p: the record is loaded and looked at
TwoBegin(p, author) ==
    /\ procs[p].pc = "classify"
    /\ author \in procs[p].todo
    /\ LET loaded == load_cache(AuthorFileOf(AuthorKey(author)))
           rest == [procs[p] EXCEPT !.todo = @ \ {author}] IN
       procs' = [procs EXCEPT ![p] =
                    IF Finalized(loaded) THEN NextAuthorOf(rest)
                    ELSE [rest EXCEPT !.pc = "load", !.cur = Some(author),
                                      !.author_cache = loaded]]
    /\ UNCHANGED <<authorFile, finalizedKeys, AllButAuthorFile>>

\* get_dblp_author_profile, lines 107-112, in process p: the record is loaded again
TwoLoad(p) ==
    /\ procs[p].pc = "load"
    /\ LET cache == load_cache(AuthorFileOf(AuthorKey(procs[p].cur[1]))) IN
       procs' = [procs EXCEPT ![p] =
                    IF HasProfileUrl(cache) THEN AfterProfileOf(@, cache.profile_url)
                    ELSE [@ EXCEPT !.pc = "request", !.profile_cache = cache]]
    /\ UNCHANGED <<authorFile, finalizedKeys, AllButAuthorFile>>

\* get_dblp_author_profile, lines 117-138, in process p: the request, and the save of the
\* record loaded at line 108 with the profile_url added
TwoRequest(p, outcome) ==
    /\ procs[p].pc = "request"
    /\ IF RateLimited(outcome)
       THEN \* return get_dblp_author_profile(author_name): the callee loads the record anew
            /\ procs' = [procs EXCEPT ![p].pc = "load", ![p].profile_cache = EmptyDict]
            /\ UNCHANGED authorFile
       ELSE IF outcome = None \/ outcome[1].status # 200 \/ outcome[1].body = None
       THEN /\ procs' = [procs EXCEPT ![p] = AfterProfileOf(@, None)]
            /\ UNCHANGED authorFile
       ELSE LET url == outcome[1].body[1] IN
            /\ authorFile' = [authorFile EXCEPT ![AuthorKey(procs[p].cur[1])] =
                   Some(Update(procs[p].profile_cache, [profile_url |-> url]))]
            /\ procs' = [procs EXCEPT ![p] = AfterProfileOf(@, url)]
    /\ UNCHANGED <<finalizedKeys, AllButAuthorFile>>

\* lines 183-197 with get_dblp_publication_count, in process p
TwoPublicationCount(p, outcome) ==
    /\ procs[p].pc = "pubcount"
    /\ LET count == get_dblp_publication_count(outcome) IN
       IF count = None
       THEN /\ procs' = [procs EXCEPT ![p] = NextAuthorOf(@)]
            /\ UNCHANGED <<authorFile, finalizedKeys>>
       ELSE IF IsProfessor(count[1])
       THEN /\ procs' = [procs EXCEPT ![p].pc = "affil", ![p].pub_count = count[1]]
            /\ UNCHANGED <<authorFile, finalizedKeys>>
       ELSE SaveAuthorOf(p, count[1], Unknown)
    /\ UNCHANGED AllButAuthorFile

\* lines 188-197 with get_latest_affiliation, in process p
TwoAffiliation(p, outcome) ==
    /\ procs[p].pc = "affil"
    /\ SaveAuthorOf(p, procs[p].pub_count, get_latest_affiliation(outcome))
    /\ UNCHANGED AllButAuthorFile

\* process 1 is started, alone or with process 2, on an empty store
InitTwo ==
    /\ PipelineInit
    /\ procs \in {[p \in Procs |-> IF p \in started THEN ProcStarted ELSE ProcOff] :
                    started \in {{1}, {1, 2}}}
    /\ finalizedKeys = {}
    /\ NewSearchAtRest
    /\ SearchAtRest
    /\ GoogleAtRest
    /\ RowsAtRest

NextTwo ==
    \E p \in Procs :
        \/ \E author \in Names : TwoBegin(p, author)
        \/ TwoLoad(p)
        \/ \E outcome \in AuthorOutcomes(IF procs[p].cur = None THEN ASmith
                                         ELSE procs[p].cur[1]) : TwoRequest(p, outcome)
        \/ \E outcome \in ProfileOutcomes : TwoPublicationCount(p, outcome)
        \/ \E outcome \in ProfileOutcomes : TwoAffiliation(p, outcome)

SpecTwo == InitTwo /\ [][NextTwo]_vars

\* a record that some process has finalized is stored without is_professor
LostUpdate ==
    \E key \in finalizedKeys : ~Finalized(load_cache(AuthorFileOf(key)))

Running(p) == procs[p].pc # "off"

\* C23 (concurrent writers race): a store state in which a record finalized by one
\* process has been overwritten with a record lacking is_professor is reachable when two
\* processes run the classifier on the same store (the witness below), and in no state
\* when exactly one process runs.
C23_LostUpdateNeedsTwoWriters == LostUpdate => (Running(1) /\ Running(2))

\* C23 witness: two processes, and the record that one of them finalized for A. Smith now
\* holds the profile_url only, written by the other
C23_Witness ==
    /\ Running(1) /\ Running(2)
    /\ AuthorKey(ASmith) \in finalizedKeys
    /\ DOMAIN load_cache(AuthorFileOf(AuthorKey(ASmith))) = {"profile_url"}

---------------------------------------------------------------------------
(* The pipeline of new_search.py: its collector, which extends the flat    *)
(* list by the lists query_dblp returns as they are, the classifier, which *)
(* is that of run_search.py, and build_professor_paper_dict.               *)

\* new_search.py, query_dblp lines 38-43 and the loop body of
\* fetch_all_conference_papers, lines 78-83: the cell is cached and non-empty
NewQueryCached ==
    /\ pc = "collect"
    /\ idx <= Len(Grid)
    /\ LET cell == Grid[idx]
           conference_cache == load_cache(confFile[cell]) IN
       /\ Truthy(conference_cache)
       /\ lastRet' = Some([is_sleep |-> FALSE, papers |-> conference_cache])
       /\ all_papers' = all_papers \o conference_cache
    /\ idx' = idx + 1
    /\ lastReq' = None
    /\ lastStatus' = None
    /\ lastSleep' = None
    /\ lastBody' = None
    /\ writeFailed' = FALSE
    /\ UNCHANGED <<run, pc, confFile, authorFile, allPapersFile, retries, collectNet>>
    /\ UNCHANGED <<fetchedNow, ClassifierLocals, ReportLocals, RunGhosts>>
    /\ UNCHANGED Aside

\* new_search.py, query_dblp lines 45-67 and the loop body of
\* fetch_all_conference_papers, lines 78-83: one requests.get and what follows it
NewQueryRequestUpTo(outcome, ok, cap) ==
    /\ pc = "collect"
    /\ idx <= Len(Grid)
    /\ LET cell == Grid[idx]
           conference_cache == load_cache(confFile[cell])
           request == [kind |-> "conference", key |-> cell] IN
       /\ ~Truthy(conference_cache)
       /\ lastReq' = Some(request)
       /\ lastStatus' = IF outcome = None THEN None ELSE Some(outcome[1].status)
       /\ lastBody' = BodyOf(outcome)
       /\ collectNet' = TRUE
       /\ fetchedNow' = IF outcome # None /\ outcome[1].status = 429 THEN fetchedNow
                        ELSE fetchedNow \cup {request}
       /\ IF RateLimited(outcome) /\ ~RecursionError(retries)
          THEN \* time.sleep(random.uniform(60, 120)); return query_dblp(...)
               /\ retries < cap
               /\ retries' = retries + 1
               /\ lastSleep' = Backoff
               /\ lastRet' = None
               /\ writeFailed' = FALSE
               /\ UNCHANGED <<confFile, all_papers, idx>>
          ELSE IF RateLimited(outcome)
          THEN \* the call of line 55 raises RecursionError, every frame of the chain
               \* catches it at line 65 and returns (False, [])
               /\ lastSleep' = Backoff
               /\ lastRet' = Some([is_sleep |-> FALSE, papers |-> <<>>])
               /\ idx' = idx + 1
               /\ retries' = 0
               /\ writeFailed' = FALSE
               /\ UNCHANGED <<confFile, all_papers>>
          ELSE LET r == AfterSave(QueryResult(outcome), ok) IN
               /\ confFile' = IF r.save THEN [confFile EXCEPT ![cell] = Some(r.papers)]
                              ELSE confFile
               /\ writeFailed' = (QueryResult(outcome).save /\ ~ok)
               /\ lastRet' = Some([is_sleep |-> r.is_sleep, papers |-> r.papers])
               /\ all_papers' = all_papers \o r.papers
               /\ lastSleep' = IF r.is_sleep THEN Politeness ELSE None
               /\ idx' = idx + 1
               /\ retries' = 0
    /\ UNCHANGED <<run, pc, authorFile, allPapersFile>>
    /\ UNCHANGED <<ClassifierLocals, ReportLocals, RunGhosts>>
    /\ UNCHANGED Aside

NewQueryRequest(outcome, ok) == NewQueryRequestUpTo(outcome, ok, MaxRetry)

\* new_search.py, lines 187-192: one author of one paper
AppendPair(d, paper, author) ==
    LET author_data == load_cache(AuthorFileOf(AuthorKey(author))) IN
    IF "is_professor" \in DOMAIN author_data /\ author_data.is_professor
    THEN LET key == author \o <<",", " ">> \o
                       (IF "affiliation" \in DOMAIN author_data THEN author_data.affiliation
                        ELSE Unknown)
             pair == [conference |-> IF "conference" \in DOMAIN paper THEN paper.conference
                                     ELSE Unknown,
                      title |-> IF "title" \in DOMAIN paper THEN paper.title ELSE "Unknown"]
             i == IndexOf(d, key) IN
         IF i = 0 THEN Append(d, [key |-> key, value |-> <<pair>>])
         ELSE [d EXCEPT ![i].value = Append(@, pair)]
    ELSE d

\* new_search.py, lines 186-192: the authors of one paper, from the j-th on
RECURSIVE AppendPairs(_, _, _)
AppendPairs(d, paper, j) ==
    IF j > Len(paper.authors) THEN d
    ELSE AppendPairs(AppendPair(d, paper, paper.authors[j]), paper, j + 1)

\* new_search.py, lines 185-192: the papers from the i-th on
RECURSIVE ProfessorPaperDict(_, _, _)
ProfessorPaperDict(d, papers, i) ==
    IF i > Len(papers) THEN d
    ELSE ProfessorPaperDict(AppendPairs(d, papers[i], 1), papers, i + 1)

\* new_search.py, build_professor_paper_dict, lines 183-194, called at line 202 of main
build_professor_paper_dict(ok) ==
    /\ pc = "aggregate"
    /\ IF ok
       THEN /\ professor_dict' = ProfessorPaperDict(<<>>, all_papers, 1)
            /\ professorPapersFile' = Some(professor_dict')
            /\ pc' = "done"
       ELSE /\ pc' = "aborted"
            /\ UNCHANGED <<professor_dict, professorPapersFile>>
    /\ writeFailed' = ~ok
    /\ NoObservation
    /\ UNCHANGED <<ReportLocals, AllButReport, TwoProcessVars, SearchVars, GoogleVars, RowsVars>>

\* new_search.py, main, lines 199-203, started on an empty store and then again on the
\* store it has left
NextNew ==
    \/ NewQueryCached
    \/ \E outcome \in ConfOutcomes : NewQueryRequest(outcome, TRUE)
    \/ CollectDone(TRUE)
    \/ \E author \in Names : ProcessAuthorBegin(author)
    \/ GetProfileCached
    \/ \E outcome \in AuthorOutcomes(IF cur = None THEN ASmith ELSE cur[1]) :
          GetProfileRequest(outcome, TRUE)
    \/ \E outcome \in ProfileOutcomes : GetPublicationCount(outcome, TRUE)
    \/ \E outcome \in ProfileOutcomes : GetLatestAffiliation(outcome, TRUE)
    \/ ClassifyDone
    \/ \E ok \in BOOLEAN : build_professor_paper_dict(ok)
    \/ NextRun

SpecNew == Init /\ [][NextNew]_vars

\* the ids of the cells of the grid
ConferenceIds == {ConferenceId(cell.venue, cell.year) : cell \in Cells}

\* the authors whose record says is_professor true
IsProfessorNow(author) ==
    /\ "is_professor" \in DOMAIN RecordOf(author)
    /\ RecordOf(author).is_professor

\* the pairs the report of new_search.py holds for an author
PairsOf(author) ==
    UNION {{professor_dict[e].value[k] : k \in 1..Len(professor_dict[e].value)} :
              e \in {e \in 1..Len(professor_dict) :
                       professor_dict[e].key = author \o <<",", " ">> \o RecordOf(author).affiliation}}

\* C25 (professor-to-papers report of new_search.py): when build_professor_paper_dict has
\* returned, for every collected paper and every author on it whose record has is_professor
\* true the report holds a pair (id of a grid cell, title of the paper), and no pair of the
\* report carries a conference id that is not venue ++ year of a grid cell.
C25_PairsCarryConferenceId ==
    (pc = "done" /\ professorPapersFile # None)
        => /\ \A i \in 1..Len(all_papers) :
                 \A j \in 1..Len(all_papers[i].authors) :
                     IsProfessorNow(all_papers[i].authors[j])
                         => \E id \in ConferenceIds :
                               [conference |-> id, title |-> all_papers[i].title]
                                   \in PairsOf(all_papers[i].authors[j])
           /\ \A e \in 1..Len(professor_dict) :
                 \A k \in 1..Len(professor_dict[e].value) :
                     professor_dict[e].value[k].conference \in ConferenceIds

---------------------------------------------------------------------------
(* build_professor_paper_dict of search.py on a list of papers that carry  *)
(* their conference: one step per author of a paper, the classification of *)
(* an author by is_professor_by_publication_count decided by what the two  *)
(* requests of that call return.                                           *)

\* papers as query_dblp of search.py returns them
P1 == [title |-> "T1", authors |-> <<ASmith>>, conference |-> ConferenceId(DAC, FirstYear)]
P2 == [title |-> "T2", authors |-> <<ASmith, JaneDoe>>,
       conference |-> ConferenceId(DAC, FirstYear + 1)]

\* the lists of at most MaxPapers papers
SearchInputs == UNION {[1..n -> {P1, P2}] : n \in 0..MaxPapers}

\* what get_dblp_author_profile of search.py returns: None or the profile reference
SearchProfiles(author) == {None, Some(UrlOf(author))}

\* what get_dblp_publication_count of search.py returns: None or the number of <r>
SearchCounts == {None, Some(14), Some(15)}

\* search.py, lines 72-94
is_professor_by_publication_count(author_url, publication_count, threshold) ==
    IF ~Truthy(author_url) THEN FALSE
    ELSE IF publication_count = None THEN FALSE
    ELSE publication_count[1] >= threshold

\* the next author of the two loops of lines 220-237
Advance(s) ==
    IF s.j < Len(s.papers[s.i].authors) THEN [s EXCEPT !.j = @ + 1]
    ELSE [s EXCEPT !.i = @ + 1, !.j = 1]

\* professor_dict[author].append((conference, title)), lines 229-231
AppendPaper(d, author, paper) ==
    LET pair == [conference |-> paper.conference, title |-> paper.title]
        e == IndexOf(d, author) IN
    IF e = 0 THEN Append(d, [key |-> author, value |-> <<pair>>])
    ELSE [d EXCEPT ![e].value = Append(@, pair)]

\* lines 223-224: the author was checked before
SearchSkip ==
    /\ search.pc = "loop"
    /\ search.i <= Len(search.papers)
    /\ search.papers[search.i].authors[search.j] \in search.checked_authors
    /\ search' = Advance(search)
    /\ UNCHANGED <<PipelineVars, TwoProcessVars, NewSearchVars, GoogleVars, RowsVars>>

\* lines 226-237: the author is classified with the threshold 15
SearchClassify(author_url, publication_count) ==
    /\ search.pc = "loop"
    /\ search.i <= Len(search.papers)
    /\ LET paper == search.papers[search.i]
           author == paper.authors[search.j] IN
       /\ author \notin search.checked_authors
       /\ author_url \in SearchProfiles(author)
       /\ search' = Advance(
              [search EXCEPT
                 !.professor_dict =
                     IF is_professor_by_publication_count(author_url, publication_count, 15)
                     THEN AppendPaper(@, author, paper) ELSE @,
                 !.checked_authors = @ \cup {author},
                 !.classified = Append(@, author)])
    /\ UNCHANGED <<PipelineVars, TwoProcessVars, NewSearchVars, GoogleVars, RowsVars>>

\* line 239
SearchReturn ==
    /\ search.pc = "loop"
    /\ search.i > Len(search.papers)
    /\ search' = [search EXCEPT !.pc = "returned"]
    /\ UNCHANGED <<PipelineVars, TwoProcessVars, NewSearchVars, GoogleVars, RowsVars>>

InitSearch ==
    /\ PipelineInit
    /\ TwoProcessAtRest
    /\ NewSearchAtRest
    /\ search \in {[SearchOff EXCEPT !.pc = "loop", !.papers = papers] : papers \in SearchInputs}
    /\ GoogleAtRest
    /\ RowsAtRest

NextSearch ==
    \/ SearchSkip
    \/ \E author_url \in UNION {SearchProfiles(a) : a \in Names},
          publication_count \in SearchCounts : SearchClassify(author_url, publication_count)
    \/ SearchReturn

SpecSearch == InitSearch /\ [][NextSearch]_vars

\* C26, first part: no author is classified twice
ClassifiedOnce ==
    \A m, n \in 1..Len(search.classified) :
        search.classified[m] = search.classified[n] => m = n

\* C26, second part: the list of an author of the result holds the pair of every input
\* paper that lists the author
NoPaperLost ==
    \A e \in 1..Len(search.professor_dict) :
        \A i \in 1..Len(search.papers) :
            (\E j \in 1..Len(search.papers[i].authors) :
                search.papers[i].authors[j] = search.professor_dict[e].key)
                => \E k \in 1..Len(search.professor_dict[e].value) :
                      search.professor_dict[e].value[k] =
                          [conference |-> search.papers[i].conference,
                           title |-> search.papers[i].title]

\* C26 (no paper lost in the aggregation of search.py): build_professor_paper_dict
\* classifies each distinct author at most once, and when it has returned, the list of
\* every author classified as a professor holds the (conference, title) pair of every
\* input paper that lists the author.
C26_NoPaperLost ==
    /\ ClassifiedOnce
    /\ search.pc = "returned" => NoPaperLost

---------------------------------------------------------------------------
(* is_professor_on_google of search.py: one step per requests.get with the *)
(* rest of the loop body.  A request is a blocking call that the transport *)
(* answers or ends by an exception, hence the weak fairness of the steps.  *)

\* the title compared as it is
LowerAsIs(s) == s

\* str.lower() of an ASCII string, line 192
Lower(s) ==
    LET Uppers == <<"A", "B", "C", "D", "E", "F", "G", "H", "I", "J", "K", "L", "M",
                    "N", "O", "P", "Q", "R", "S", "T", "U", "V", "W", "X", "Y", "Z">>
        Lowers == <<"a", "b", "c", "d", "e", "f", "g", "h", "i", "j", "k", "l", "m",
                    "n", "o", "p", "q", "r", "s", "t", "u", "v", "w", "x", "y", "z">> IN
    [i \in 1..Len(s) |->
        IF \E k \in 1..Len(Uppers) : Uppers[k] = s[i]
        THEN Lowers[CHOOSE k \in 1..Len(Uppers) : Uppers[k] = s[i]]
        ELSE s[i]]

\* sub in s
Contains(s, sub) ==
    \E i \in 1..(Len(s) - Len(sub) + 1) : SubSeq(s, i, i + Len(sub) - 1) = sub

KeywordProfessor == <<"p", "r", "o", "f", "e", "s", "s", "o", "r">>
KeywordFaculty == <<"f", "a", "c", "u", "l", "t", "y">>

\* line 193
HasKeyword(text) ==
    Contains(Lower(text), KeywordProfessor) \/ Contains(Lower(text), KeywordFaculty)

\* texts of <h3> elements of a result page
ProfessorTitle == <<"P", "r", "o", "f", "e", "s", "s", "o", "r", " ", "L", "i">>
FacultyTitle == <<"o", "u", "r", " ", "f", "a", "c", "u", "l", "t", "y">>
LabTitle == <<"L", "a", "b">>

\* soup.find_all('h3') of the pages the model lets the search engine return: none, some
\* without keyword, some with a keyword among the first 20, one with the keyword in the
\* 21st only
GoogleResults ==
    {<<>>, <<LabTitle>>, <<LabTitle, ProfessorTitle>>, <<FacultyTitle>>,
     [i \in 1..21 |-> IF i = 21 THEN FacultyTitle ELSE LabTitle]}

\* outcomes of requests.get for the web search: None is an exception
GoogleOutcomes ==
    {None}
    \cup {Some([status |-> 200, titles |-> t]) : t \in GoogleResults}
    \cup {Some([status |-> s, titles |-> t]) : s \in {403, 429, 503}, t \in {<<>>, <<FacultyTitle>>}}

\* soup.find_all('h3')[:20], line 182
First20(titles) == SubSeq(titles, 1, IF Len(titles) < 20 THEN Len(titles) ELSE 20)

\* lines 172-201: one iteration of the while loop
GoogleRequest(outcome) ==
    /\ google.pc = "loop"
    /\ google.attempt <= google.max_retries
    /\ LET g == [google EXCEPT !.requests = @ + 1, !.last = Some(outcome)] IN
       google' =
          IF outcome = None
          THEN [g EXCEPT !.attempt = @ + 1, !.retriedOn = @ \cup {"exception"}]
          ELSE IF outcome[1].status # 200
          THEN [g EXCEPT !.pc = "returned", !.ret = Some(FALSE)]
          ELSE IF First20(outcome[1].titles) = <<>>
          THEN [g EXCEPT !.attempt = @ + 1, !.retriedOn = @ \cup {"empty"}]
          ELSE [g EXCEPT !.pc = "returned",
                         !.ret = Some(\E i \in 1..Len(First20(outcome[1].titles)) :
                                         HasKeyword(First20(outcome[1].titles)[i]))]
    /\ UNCHANGED <<PipelineVars, TwoProcessVars, NewSearchVars, SearchVars, RowsVars>>

\* lines 203-204: the loop has ended
GoogleExhausted ==
    /\ google.pc = "loop"
    /\ google.attempt > google.max_retries
    /\ google' = [google EXCEPT !.pc = "returned", !.ret = Some(FALSE)]
    /\ UNCHANGED <<PipelineVars, TwoProcessVars, NewSearchVars, SearchVars, RowsVars>>

InitGoogle ==
    /\ PipelineInit
    /\ TwoProcessAtRest
    /\ NewSearchAtRest
    /\ SearchAtRest
    /\ google \in {[GoogleOff EXCEPT !.pc = "loop", !.max_retries = m] :
                     m \in 0..MaxGoogleRetries}
    /\ RowsAtRest

NextGoogle ==
    \/ \E outcome \in GoogleOutcomes : GoogleRequest(outcome)
    \/ GoogleExhausted

SpecGoogle == InitGoogle /\ [][NextGoogle]_vars /\ WF_vars(NextGoogle)

\* the titles the last response lists, the first 20 of them
LastTitles ==
    IF google.last = None \/ google.last[1] = None THEN <<>>
    ELSE First20(google.last[1][1].titles)

LastStatusIs200 ==
    google.last # None /\ google.last[1] # None /\ google.last[1][1].status = 200

\* C28, the properties of every state: at most max_retries + 1 requests, retries on an
\* empty list or an exception only, False at once on a status other than 200, False when
\* the attempts are exhausted
BoundedRetry ==
    /\ google.requests <= google.max_retries + 1
    /\ google.requests = google.attempt + (IF google.last # None /\ google.pc = "returned"
                                              /\ google.attempt <= google.max_retries
                                           THEN 1 ELSE 0)
    /\ google.retriedOn \subseteq {"exception", "empty"}
    /\ (google.last # None /\ google.last[1] # None /\ google.last[1][1].status # 200)
          => (google.pc = "returned" /\ google.ret = Some(FALSE))
    /\ (google.pc = "returned" /\ google.attempt > google.max_retries)
          => google.ret = Some(FALSE)

\* True is returned only for a title that holds a keyword as it is written
TrueOnlyOnLiteralKeyword ==
    google.ret = Some(TRUE)
        => /\ LastStatusIs200
           /\ \E i \in 1..Len(LastTitles) :
                 Contains(LastTitles[i], KeywordProfessor) \/ Contains(LastTitles[i], KeywordFaculty)

\* the titles of the pages that hold a keyword in whatever case: 'Professor Li' and
\* 'our faculty'
AnyCaseKeywordTitles == {ProfessorTitle, FacultyTitle}

\* True is returned only for a title that holds a keyword in whatever case
TrueOnlyOnKeyword ==
    google.ret = Some(TRUE)
        => /\ LastStatusIs200
           /\ \E i \in 1..Len(LastTitles) : LastTitles[i] \in AnyCaseKeywordTitles

\* a page with a keyword among its first 20 titles, in whatever case, gives True
KeywordGivesTrue ==
    (/\ google.pc = "returned"
     /\ LastStatusIs200
     /\ \E i \in 1..Len(LastTitles) : LastTitles[i] \in AnyCaseKeywordTitles)
        => google.ret = Some(TRUE)

\* C28 (bounded web-search retry) as stated: is_professor_on_google terminates after at
\* most max_retries + 1 requests, retries only on an empty result list or an exception,
\* returns False at once on a status other than 200 and when the attempts are exhausted,
\* and returns True only if one of the first 20 titles contains 'professor' or 'faculty'.
C28_BoundedRetry ==
    /\ <>(google.pc = "returned")
    /\ [](BoundedRetry /\ TrueOnlyOnLiteralKeyword)

\* C28 amended: the same, the keywords being looked for in the lower-cased titles; a page
\* with such a title among its first 20 gives True.
C28_BoundedRetryAnyCase ==
    /\ <>(google.pc = "returned")
    /\ [](BoundedRetry /\ TrueOnlyOnKeyword /\ KeywordGivesTrue)

\* C28 witness: True returned for the title 'Professor Li' after two retries
C28_Witness ==
    /\ google.ret = Some(TRUE)
    /\ google.requests = 3
    /\ google.retriedOn = {"exception", "empty"}
    /\ \E i \in 1..Len(LastTitles) : LastTitles[i] = ProfessorTitle

---------------------------------------------------------------------------
(* remove_empty_rows of remove_empty.py on the text of a CSV file.  The    *)
(* file is read by csv.reader and written by csv.writer, both in the       *)
(* default dialect (delimiter ',', quotechar '"', doubled quotes, line     *)
(* terminator '\r\n', minimal quoting, not strict), the files opened with  *)
(* newline='': a row is a sequence of cells, a cell a sequence of          *)
(* characters.                                                             *)

\* the characters of the files the function is started on
CsvAlphabet == {"a", " ", ",", "\"", "\n", "\r"}

\* the texts of at most MaxText characters
CsvTexts == UNION {[1..n -> CsvAlphabet] : n \in 0..MaxText}

\* csv.reader from position i of the text on: state is the state of the parser, field the
\* cell and fields the row in progress, rows the rows read so far.  A line ends at '\n',
\* '\r\n' or '\r'; inside quotes the characters of the line end belong to the cell.
RECURSIVE ReadFrom(_, _, _, _, _, _)
ReadFrom(text, i, state, field, fields, rows) ==
    IF i > Len(text)
    THEN IF state = "start_record" THEN rows ELSE Append(rows, Append(fields, field))
    ELSE LET c == text[i]
             eol == c \in {"\n", "\r"}
             next == IF c = "\r" /\ i < Len(text) /\ text[i + 1] = "\n" THEN i + 2 ELSE i + 1 IN
         IF state = "in_quoted_field"
         THEN IF c = "\""
              THEN ReadFrom(text, i + 1, "quote_in_quoted_field", field, fields, rows)
              ELSE ReadFrom(text, i + 1, "in_quoted_field", Append(field, c), fields, rows)
         ELSE IF eol
         THEN IF state = "start_record"
              THEN ReadFrom(text, next, "start_record", <<>>, <<>>, Append(rows, <<>>))
              ELSE ReadFrom(text, next, "start_record", <<>>, <<>>,
                            Append(rows, Append(fields, field)))
         ELSE IF c = ","
         THEN ReadFrom(text, i + 1, "start_field", <<>>, Append(fields, field), rows)
         ELSE IF c = "\"" /\ state \in {"start_record", "start_field"}
         THEN ReadFrom(text, i + 1, "in_quoted_field", <<>>, fields, rows)
         ELSE IF c = "\"" /\ state = "quote_in_quoted_field"
         THEN ReadFrom(text, i + 1, "in_quoted_field", Append(field, "\""), fields, rows)
         ELSE ReadFrom(text, i + 1, "in_field", Append(field, c), fields, rows)

\* list(csv.reader(infile)), line 12
reader(text) == ReadFrom(text, 1, "start_record", <<>>, <<>>, <<>>)

\* no cell quoted
NeedsQuotesNever(cell) == FALSE

\* a cell is quoted when it holds the delimiter, the quote character or a character of
\* the line terminator
NeedsQuotes(cell) == \E i \in 1..Len(cell) : cell[i] \in {",", "\"", "\r", "\n"}

\* the quote characters of a cell doubled
RECURSIVE Doubled(_)
Doubled(cell) ==
    IF cell = <<>> THEN <<>>
    ELSE (IF Head(cell) = "\"" THEN <<"\"", "\"">> ELSE <<Head(cell)>>) \o Doubled(Tail(cell))

\* one cell as csv.writer writes it; a row of one empty cell is written as ""
WriteCell(cell, alone) ==
    IF NeedsQuotes(cell) \/ (alone /\ cell = <<>>)
    THEN <<"\"">> \o Doubled(cell) \o <<"\"">>
    ELSE cell

\* writer.writerow(row), line 22
writerow(row) ==
    Join([i \in 1..Len(row) |-> WriteCell(row[i], Len(row) = 1)], <<",">>) \o <<"\r", "\n">>

Whitespace == {" ", "\n", "\r", "\t"}

\* cell.strip(), line 21: white space of both ends removed
RECURSIVE StripWhitespace(_)
StripWhitespace(cell) ==
    IF cell = <<>> THEN <<>>
    ELSE IF Head(cell) \in Whitespace THEN StripWhitespace(Tail(cell))
    ELSE IF cell[Len(cell)] \in Whitespace
    THEN StripWhitespace(SubSeq(cell, 1, Len(cell) - 1))
    ELSE cell

\* any(cell.strip() for cell in row), line 21
AnyCell(row) == \E i \in 1..Len(row) : StripWhitespace(row[i]) # <<>>

\* lines 18-24 from the k-th row on: the text written and the two counters
RECURSIVE FilterFrom(_, _, _)
FilterFrom(rows, k, acc) ==
    IF k > Len(rows) THEN acc
    ELSE FilterFrom(rows, k + 1,
            IF AnyCell(rows[k])
            THEN [acc EXCEPT !.row_count = @ + 1, !.text = @ \o writerow(rows[k])]
            ELSE [acc EXCEPT !.row_count = @ + 1, !.empty_row_count = @ + 1])

\* remove_empty_rows, lines 3-28: FileNotFoundError when there is no input file
remove_empty_rows(input_file, output_file) ==
    /\ csvFiles[input_file] # None
    /\ csvFiles[output_file] = None
    /\ LET result == FilterFrom(reader(csvFiles[input_file][1]), 1,
                                [text |-> <<>>, row_count |-> 0, empty_row_count |-> 0]) IN
       /\ csvFiles' = [csvFiles EXCEPT ![output_file] = Some(result.text)]
       /\ csvCalls' = Append(csvCalls,
                             [input_file |-> input_file, output_file |-> output_file,
                              row_count |-> result.row_count,
                              empty_row_count |-> result.empty_row_count])
    /\ UNCHANGED <<PipelineVars, TwoProcessVars, NewSearchVars, SearchVars, GoogleVars>>

InitRows ==
    /\ PipelineInit
    /\ TwoProcessAtRest
    /\ NewSearchAtRest
    /\ SearchAtRest
    /\ GoogleAtRest
    /\ csvFiles \in {[f \in CsvPaths |-> IF f = "input_csv" THEN Some(text) ELSE None] :
                       text \in CsvTexts}
    /\ csvCalls = <<>>

\* the function applied to the input file, and then to its own output
NextRows ==
    \E files \in {<<"input_csv", "output_csv">>, <<"output_csv", "output_csv_2">>} :
        remove_empty_rows(files[1], files[2])

SpecRows == InitRows /\ [][NextRows]_vars

\* the rows of a file
RowsOf(path) == reader(csvFiles[path][1])

\* C29: a row with a cell that is not white space only
NonEmptyRow(row) == \E i \in 1..Len(row) : \E k \in 1..Len(row[i]) : row[i][k] \notin Whitespace

\* C29 (remove_empty_rows): the output file holds exactly the input rows that have a cell
\* which is non-empty after stripping white space, in their order; the processed count is
\* the number of written rows plus the number of removed rows; the function applied to
\* its own output removes nothing and writes the same file.
C29_RemoveEmptyRows ==
    \A n \in 1..Len(csvCalls) :
        LET call == csvCalls[n] IN
        /\ RowsOf(call.output_file) = SelectSeq(RowsOf(call.input_file), NonEmptyRow)
        /\ call.row_count = Len(RowsOf(call.input_file))
        /\ call.row_count = Len(RowsOf(call.output_file)) + call.empty_row_count
        /\ call.input_file = "output_csv"
              => /\ call.empty_row_count = 0
                 /\ csvFiles[call.output_file] = csvFiles[call.input_file]

\* C29 witness: of a file of two rows the first call has removed one and written the
\* other, which has a quoted cell, and the second call has run on the output
C29_Witness ==
    /\ Len(csvCalls) = 2
    /\ csvCalls[1].row_count = 2
    /\ csvCalls[1].empty_row_count = 1
    /\ \E k \in 1..Len(csvFiles["output_csv"][1]) : csvFiles["output_csv"][1][k] = "\""

====
